---- MODULE Spec2Model ----
(***************************************************************************)
(* Model of TicketmasterFraudDetection                                     *)
(* (src/solutions/system_design/ticket_master/src/fraud_detection.py).     *)
(*                                                                         *)
(* Elasticsearch is the external collaborator.  The user_behavior index    *)
(* holds one document per user action, the fraud_detection index holds     *)
(* the persisted assessments.  Timestamps are integers counting tenths     *)
(* of a second, so 2.0 s is 20, 0.5 s is 5 and 5.0 s is 50.  Scores are    *)
(* the floats of the code; every indicator score the code can produce is   *)
(* integral, the risk scores of scalping networks are kept in tenths.      *)
(* A Python dict is a record and a missing key is a field that is not in   *)
(* the record's DOMAIN.                                                    *)
(***************************************************************************)
EXTENDS Integers, Sequences, FiniteSets, TLC

VARIABLES
    user_behavior,   \* the user_behavior index: the action documents, in arrival order
    ip_sessions,     \* per IP: distinct session ids the index holds for the trailing hour
    fraud_index,     \* the fraud_detection index: persisted assessment documents
    now,             \* the clock (datetime.utcnow), tenths of a second
    session_data,    \* what _get_session_data returned to the last call
    assessment,      \* what the last assess_session_risk call returned, None when idle
    calls,           \* the assess_session_risk calls made so far, where they are logged
    scalping,        \* what the last detect_scalping_networks call returned, None before it
    searchable,      \* how many documents of the fraud_detection index a search sees
    dashboard,       \* what the last get_real_time_threat_dashboard call returned, None before it
    inflight         \* the assess_session_risk calls that run side by side, per thread

vars == <<user_behavior, ip_sessions, fraud_index, now, session_data, assessment,
          calls, scalping, searchable, dashboard, inflight>>

\* what the operations on a single call at a time leave alone
reporting == <<searchable, dashboard, inflight>>

----------------------------------------------------------------------------
(* Bounds of the model *)

MaxActions == 3
MaxStored == 1

----------------------------------------------------------------------------
(* Python helpers *)

None == [none |-> TRUE]

IsNone(x) == "none" \in DOMAIN x

NoUser == "None"

\* an exception that leaves the call
Raise(exception) == [raised |-> exception]

IsRaised(x) == "raised" \in DOMAIN x

Get(d, key, default) == IF key \in DOMAIN d THEN d[key] ELSE default

Min(a, b) == IF a < b THEN a ELSE b

SetMax(S) == CHOOSE m \in S : \A x \in S : x <= m

SetMin(S) == CHOOSE m \in S : \A x \in S : m <= x

RECURSIVE SeqSum(_)
SeqSum(s) ==
    IF s = <<>> THEN 0
    ELSE IF Len(s) = 1 THEN s[1]
    ELSE LET half == Len(s) \div 2
         IN SeqSum(SubSeq(s, 1, half)) + SeqSum(SubSeq(s, half + 1, Len(s)))

SeqRange(s) == {s[i] : i \in 1..Len(s)}

Indicator(name, score, evidence) ==
    [indicator |-> name, score |-> score, evidence |-> evidence]

----------------------------------------------------------------------------
(* __init__ *)

risk_thresholds == [LOW |-> 25, MEDIUM |-> 50, HIGH |-> 75, CRITICAL |-> 90]

----------------------------------------------------------------------------
(* The Session Store: es.search on the user_behavior index *)

SearchSize == 100

\* Every order of the documents idx of docs that is sorted by timestamp,
\* newest first; documents with equal timestamps come in any order.  The
\* documents are split at the median timestamp, the newer half before the older
\* one, until all the documents left have the same timestamp.
RECURSIVE DescOrders(_, _)
DescOrders(docs, idx) ==
    IF idx = {} THEN {<<>>}
    ELSE LET stamps == {docs[i].timestamp : i \in idx}
         IN IF Cardinality(stamps) = 1
            THEN UNION {{<<docs[i]>> \o rest : rest \in DescOrders(docs, idx \ {i})} :
                           i \in idx}
            ELSE LET m == CHOOSE s \in stamps :
                            Cardinality({t \in stamps : t >= s})
                                = (Cardinality(stamps) + 1) \div 2
                 IN {newer \o older :
                        newer \in DescOrders(docs, {i \in idx : docs[i].timestamp >= m}),
                        older \in DescOrders(docs, {i \in idx : docs[i].timestamp < m})}

\* The responses Elasticsearch can give to the query of _get_session_data:
\* term session_id, sort timestamp desc, size 100.
SessionSearch(session_id) ==
    LET idx == {i \in 1..Len(user_behavior) : user_behavior[i].session_id = session_id}
    IN {[total |-> Cardinality(idx), hits |-> SubSeq(o, 1, Min(SearchSize, Len(o)))] :
           o \in DescOrders(user_behavior, idx)}

_get_session_data(response, read_ok) ==
    IF ~read_ok THEN None
    ELSE IF response.total > 0 /\ Len(response.hits) > 0
         THEN [actions |-> response.hits,
               session_start |-> response.hits[Len(response.hits)].timestamp,
               latest_action |-> response.hits[1].timestamp]
         ELSE None

----------------------------------------------------------------------------
(* Detectors *)

\* time_gaps: gap i is actions[i] minus actions[i-1] in delivery order
TimeGaps(actions) ==
    [i \in 1..(Len(actions) - 1) |-> actions[i + 1].timestamp - actions[i].timestamp]

CountBelow(gaps, limit) == Cardinality({i \in 1..Len(gaps) : gaps[i] < limit})

RapidFireClicks(time_gaps) ==
    IF CountBelow(time_gaps, 20) > 5
    THEN <<Indicator("rapid_fire_clicks", 30,
                     [rapid_action_count |-> CountBelow(time_gaps, 20),
                      avg_gap |-> <<SeqSum(time_gaps), Len(time_gaps)>>,
                      min_gap |-> SetMin(SeqRange(time_gaps))])>>
    ELSE <<>>

SuperhumanSpeed(time_gaps) ==
    IF CountBelow(time_gaps, 5) > 3
    THEN <<Indicator("superhuman_speed", 50,
                     [superhuman_count |-> CountBelow(time_gaps, 5),
                      fastest_action |-> SetMin(SeqRange(time_gaps))])>>
    ELSE <<>>

\* The _source of a document carries the timestamp as the text that was
\* indexed.  A text in another of the formats the date mapping takes, such as
\* epoch_millis, is marked by the field timestamp_format; Elasticsearch sorts
\* it as the instant it denotes, datetime.fromisoformat raises ValueError on it.
IsIsoFormat(action) == "timestamp_format" \notin DOMAIN action

\* lines 244-250 and 358-364: the loop parses the timestamp of every action
\* as soon as there are two, outside any try
TimeGapsRaise(actions) ==
    Len(actions) >= 2 /\ \E i \in 1..Len(actions) : ~IsIsoFormat(actions[i])

DetectorsRaise(sd) == TimeGapsRaise(sd.actions)

_detect_rapid_fire_behavior(sd) ==
    IF Len(sd.actions) < 2 THEN <<>>
    ELSE RapidFireClicks(TimeGaps(sd.actions)) \o SuperhumanSpeed(TimeGaps(sd.actions))

Quantity(action) == Get(action, "quantity", 1)

IsAddToCart(action) == Get(action, "action_type", "None") = "add_to_cart"

\* a slip: the score of a single action is not capped
SingleIndicatorUncapped(action, quantity) ==
    Indicator("high_quantity_single", 25 + quantity * 2,
              [quantity |-> quantity,
               event_id |-> Get(action, "event_id", 0),
               timestamp |-> action.timestamp])

SingleIndicator(action, quantity) ==
    Indicator("high_quantity_single", 25 + Min(quantity * 2, 50),
              [quantity |-> quantity,
               event_id |-> Get(action, "event_id", 0),
               timestamp |-> action.timestamp])

\* a slip: ten tickets already count as a high quantity
HighQuantityFromTen(action) ==
    IF IsAddToCart(action) /\ Quantity(action) >= 10
    THEN <<SingleIndicator(action, Quantity(action))>>
    ELSE <<>>

\* the body of the loop of lines 287-300
HighQuantityOf(action) ==
    IF IsAddToCart(action) /\ Quantity(action) > 10
    THEN <<SingleIndicator(action, Quantity(action))>>
    ELSE <<>>

\* the loop of lines 287-300: one indicator per qualifying action, in list order
RECURSIVE HighQuantitySingle(_)
HighQuantitySingle(actions) ==
    IF actions = <<>> THEN <<>>
    ELSE IF Len(actions) = 1 THEN HighQuantityOf(actions[1])
    ELSE LET half == Len(actions) \div 2
         IN HighQuantitySingle(SubSeq(actions, 1, half))
            \o HighQuantitySingle(SubSeq(actions, half + 1, Len(actions)))

\* sum(action.get("quantity", 1) for action in actions if add_to_cart)
TotalQuantity(actions) ==
    SeqSum([i \in 1..Len(actions) |->
                IF IsAddToCart(actions[i]) THEN Quantity(actions[i]) ELSE 0])

\* event ids are positive integers; a missing or falsy event id reads as 0
EventIds(actions) ==
    {actions[i].event_id : i \in {j \in 1..Len(actions) : Get(actions[j], "event_id", 0) # 0}}

\* a slip: twenty tickets in all already count
HighQuantityCumulativeFromTwenty(actions) ==
    LET total_quantity == TotalQuantity(actions)
    IN IF total_quantity >= 20
       THEN <<Indicator("high_quantity_cumulative", 20 + Min(total_quantity, 60),
                        [total_quantity |-> total_quantity,
                         unique_events |-> Cardinality(EventIds(actions))])>>
       ELSE <<>>

HighQuantityCumulative(actions) ==
    LET total_quantity == TotalQuantity(actions)
    IN IF total_quantity > 20
       THEN <<Indicator("high_quantity_cumulative", 20 + Min(total_quantity, 60),
                        [total_quantity |-> total_quantity,
                         unique_events |-> Cardinality(EventIds(actions))])>>
       ELSE <<>>

_detect_high_quantity_purchases(sd) ==
    HighQuantitySingle(sd.actions) \o HighQuantityCumulative(sd.actions)

\* a slip: the event ids of every action type are collected
TargetedEventsOfAnyType(actions) ==
    {actions[i].event_id :
        i \in {j \in 1..Len(actions) : Get(actions[j], "event_id", 0) # 0}}

TargetedEvents(actions) ==
    {actions[i].event_id :
        i \in {j \in 1..Len(actions) :
                 /\ Get(actions[j], "event_id", 0) # 0
                 /\ Get(actions[j], "action_type", "None") \in {"search", "view", "add_to_cart"}}}

\* list(targeted_events)[:10]: the iteration order of a Python set is not
\* specified, so any 10 of the ids can be the ones listed
RECURSIVE SubsetsOfSize(_, _)
SubsetsOfSize(S, k) ==
    IF k = 0 THEN {{}}
    ELSE IF Cardinality(S) < k THEN {}
    ELSE LET x == CHOOSE y \in S : TRUE
         IN SubsetsOfSize(S \ {x}, k)
            \cup {A \cup {x} : A \in SubsetsOfSize(S \ {x}, k - 1)}

EventSamples(targeted_events) ==
    IF Cardinality(targeted_events) <= 10 THEN {targeted_events}
    ELSE SubsetsOfSize(targeted_events, 10)

_detect_multiple_event_targeting(sd, events) ==
    LET targeted_events == TargetedEvents(sd.actions)
    IN IF Cardinality(targeted_events) > 5
       THEN <<Indicator("multiple_event_targeting",
                        15 + Min(Cardinality(targeted_events) * 3, 45),
                        [event_count |-> Cardinality(targeted_events),
                         events |-> events])>>
       ELSE <<>>

\* variance < 0.5 and avg_gap < 5.0, for gaps in tenths of a second:
\*   avg = s/n tenths, variance = (n*q - s*s)/(n*n) tenths squared,
\*   with s the sum of the gaps and q the sum of their squares.
ConsistentTiming(actions) ==
    LET time_gaps == TimeGaps(actions)
        n == Len(time_gaps)
        s == SeqSum(time_gaps)
        q == SeqSum([i \in 1..n |-> time_gaps[i] * time_gaps[i]])
    IN IF n > 5 /\ 2 * (n * q - s * s) < 100 * n * n /\ s < 50 * n
       THEN <<Indicator("consistent_timing_pattern", 35,
                        [avg_gap |-> <<s, n>>,
                         variance |-> <<n * q - s * s, n * n>>,
                         action_count |-> Len(actions)])>>
       ELSE <<>>

human_behaviors == {"scroll", "hover", "back_button", "page_refresh"}

\* a slip: a session of ten actions is already long enough
MissingHumanBehaviorsFromTen(actions) ==
    LET action_types == {Get(actions[i], "action_type", "None") : i \in 1..Len(actions)}
        missing_behaviors == human_behaviors \ action_types
    IN IF Cardinality(missing_behaviors) >= 3 /\ Len(actions) >= 10
       THEN <<Indicator("missing_human_behaviors", 25,
                        [missing_behaviors |-> missing_behaviors,
                         present_behaviors |-> action_types])>>
       ELSE <<>>

MissingHumanBehaviors(actions) ==
    LET action_types == {Get(actions[i], "action_type", "None") : i \in 1..Len(actions)}
        missing_behaviors == human_behaviors \ action_types
    IN IF Cardinality(missing_behaviors) >= 3 /\ Len(actions) > 10
       THEN <<Indicator("missing_human_behaviors", 25,
                        [missing_behaviors |-> missing_behaviors,
                         present_behaviors |-> action_types])>>
       ELSE <<>>

_detect_bot_patterns(sd) ==
    IF sd.actions = <<>> THEN <<>>
    ELSE ConsistentTiming(sd.actions) \o MissingHumanBehaviors(sd.actions)

\* a slip: the assessments already persisted count as sessions of the address
IpAnomaliesCountingAssessments(sd, ip_ok) ==
    IF sd.actions = <<>> THEN <<>>
    ELSE IF "ip_address" \notin DOMAIN sd.actions[1] THEN <<>>
    ELSE LET ip_address == sd.actions[1].ip_address
             unique_sessions == ip_sessions[ip_address] + Len(fraud_index)
         IN IF ip_ok /\ unique_sessions > 10
            THEN <<Indicator("high_ip_activity", 20 + Min(unique_sessions * 2, 40),
                             [ip_address |-> ip_address,
                              session_count |-> unique_sessions])>>
            ELSE <<>>

\* a slip: a count search that failed is taken for a suspicious address
IpAnomaliesFailingClosed(sd, ip_ok) ==
    IF sd.actions = <<>> THEN <<>>
    ELSE IF "ip_address" \notin DOMAIN sd.actions[1] THEN <<>>
    ELSE LET ip_address == sd.actions[1].ip_address
             unique_sessions == ip_sessions[ip_address]
         IN IF ~ip_ok \/ unique_sessions > 10
            THEN <<Indicator("high_ip_activity", 20 + Min(unique_sessions * 2, 40),
                             [ip_address |-> ip_address,
                              session_count |-> unique_sessions])>>
            ELSE <<>>

\* the cardinality aggregation of _detect_ip_anomalies; ip_ok is whether
\* the search came back
_detect_ip_anomalies(sd, ip_ok) ==
    IF sd.actions = <<>> THEN <<>>
    ELSE IF "ip_address" \notin DOMAIN sd.actions[1] THEN <<>>
    ELSE LET ip_address == sd.actions[1].ip_address
             unique_sessions == ip_sessions[ip_address]
         IN IF ip_ok /\ unique_sessions > 10
            THEN <<Indicator("high_ip_activity", 20 + Min(unique_sessions * 2, 40),
                             [ip_address |-> ip_address,
                              session_count |-> unique_sessions])>>
            ELSE <<>>

\* a slip: the comparison with the user's history is scored
UserAnomaliesScored(user_id, sd, user_ok) ==
    IF user_ok
    THEN <<Indicator("unusual_user_behavior", 20, [user_id |-> user_id])>>
    ELSE <<>>

\* the historical search is made and its response is dropped
_detect_user_anomalies(user_id, sd, user_ok) == <<>>

----------------------------------------------------------------------------
(* Risk aggregation *)

\* a slip: an indicator name that occurs again is not counted again
TotalScoreByName(indicators) ==
    SeqSum([i \in 1..Len(indicators) |->
                IF \E j \in 1..(i - 1) : indicators[j].indicator = indicators[i].indicator
                THEN 0 ELSE indicators[i].score])

\* sum(indicator.score for indicator in indicators)
TotalScore(indicators) ==
    SeqSum([i \in 1..Len(indicators) |-> indicators[i].score])

\* a slip: the thresholds are exclusive
RiskLevelExclusive(total_score) ==
    IF total_score > risk_thresholds.CRITICAL THEN "CRITICAL"
    ELSE IF total_score > risk_thresholds.HIGH THEN "HIGH"
    ELSE IF total_score > risk_thresholds.MEDIUM THEN "MEDIUM"
    ELSE "LOW"

_calculate_risk_level(total_score) ==
    IF total_score >= risk_thresholds.CRITICAL THEN "CRITICAL"
    ELSE IF total_score >= risk_thresholds.HIGH THEN "HIGH"
    ELSE IF total_score >= risk_thresholds.MEDIUM THEN "MEDIUM"
    ELSE "LOW"

_get_recommended_action(risk_level, indicators) ==
    IF risk_level = "CRITICAL" THEN "BLOCK_IMMEDIATELY"
    ELSE IF risk_level = "HIGH" THEN "REQUIRE_VERIFICATION"
    ELSE IF risk_level = "MEDIUM" THEN "ADD_FRICTION"
    ELSE "MONITOR"

\* a slip: the floor assessment is built like any other LOW assessment
LowRiskAssessmentMonitor(session_id, user_id) ==
    [session_id |-> session_id,
     user_id |-> user_id,
     total_risk_score |-> 0,
     risk_level |-> "LOW",
     indicators |-> <<>>,
     recommended_action |-> "MONITOR",
     timestamp |-> now]

_create_low_risk_assessment(session_id, user_id) ==
    [session_id |-> session_id,
     user_id |-> user_id,
     total_risk_score |-> 0,
     risk_level |-> "LOW",
     indicators |-> <<>>,
     recommended_action |-> "ALLOW",
     timestamp |-> now]

\* a slip: only a CRITICAL assessment is flagged
FraudDocFlaggingCritical(a) ==
    [session_id |-> a.session_id,
     user_id |-> a.user_id,
     risk_score |-> a.total_risk_score,
     risk_level |-> a.risk_level,
     risk_indicators |-> a.indicators,
     recommended_action |-> a.recommended_action,
     flagged |-> a.risk_level = "CRITICAL",
     timestamp |-> a.timestamp]

\* a slip: the document is built from the indicators of the first detector
\* that found something
FraudDocOfFirstIndicator(a) ==
    [session_id |-> a.session_id,
     user_id |-> a.user_id,
     risk_score |-> a.total_risk_score,
     risk_level |-> a.risk_level,
     risk_indicators |-> SubSeq(a.indicators, 1, Min(1, Len(a.indicators))),
     recommended_action |-> a.recommended_action,
     flagged |-> a.risk_level \in {"HIGH", "CRITICAL"},
     timestamp |-> a.timestamp]

\* the document _store_fraud_assessment builds
FraudDoc(a) ==
    [session_id |-> a.session_id,
     user_id |-> a.user_id,
     risk_score |-> a.total_risk_score,
     risk_level |-> a.risk_level,
     risk_indicators |-> a.indicators,
     recommended_action |-> a.recommended_action,
     flagged |-> a.risk_level \in {"HIGH", "CRITICAL"},
     timestamp |-> a.timestamp]

\* a slip: the write is made again after the first one
StoreFraudAssessmentTwice(a, write_ok) ==
    IF write_ok THEN fraud_index \o <<FraudDoc(a), FraudDoc(a)>> ELSE fraud_index

\* es.index; a failed write is logged and swallowed
_store_fraud_assessment(a, write_ok) ==
    IF write_ok THEN Append(fraud_index, FraudDoc(a)) ELSE fraud_index

\* a slip: the failure of the write is not caught
ReturnUnlessWriteFailed(a, write_ok) == IF write_ok THEN a ELSE Raise("ConnectionError")

\* lines 95-98: the assessment is stored and returned; whether the write
\* came back does not reach the caller
ReturnAfterStore(a, write_ok) == a

\* lines 70-93: the detectors in order, then the aggregation
RunDetectors(sd, user_id, ip_ok, user_ok, events) ==
    _detect_rapid_fire_behavior(sd)
    \o _detect_high_quantity_purchases(sd)
    \o _detect_multiple_event_targeting(sd, events)
    \o _detect_bot_patterns(sd)
    \o _detect_ip_anomalies(sd, ip_ok)
    \o (IF user_id # NoUser THEN _detect_user_anomalies(user_id, sd, user_ok) ELSE <<>>)

BuildAssessment(session_id, user_id, indicators) ==
    LET total_score == TotalScore(indicators)
        risk_level == _calculate_risk_level(total_score)
    IN [session_id |-> session_id,
        user_id |-> user_id,
        total_risk_score |-> total_score,
        risk_level |-> risk_level,
        indicators |-> indicators,
        recommended_action |-> _get_recommended_action(risk_level, indicators),
        timestamp |-> now]

----------------------------------------------------------------------------
(* Scalping networks *)

\* The risk scores of the networks are not integral (4 * 21 / 10 is 8.4): the
\* model keeps them in tenths of a point, so 100 is 1000 and 75 is 750.
Tenths(x) == 10 * x

RECURSIVE Concat(_)
Concat(seqs) == IF seqs = <<>> THEN <<>> ELSE Head(seqs) \o Concat(Tail(seqs))

\* a slip: three users already make a network
IpNetworkFromThreeUsers(ip_bucket) ==
    LET unique_users == ip_bucket.unique_users
        total_quantity == ip_bucket.total_quantity
    IN IF unique_users >= 3 /\ total_quantity > 20
       THEN <<[type |-> "ip_based",
               identifier |-> ip_bucket.key,
               evidence |-> [unique_users |-> unique_users,
                             total_quantity |-> total_quantity,
                             user_agents |-> ip_bucket.user_agents],
               risk_score |-> Min(unique_users * total_quantity, Tenths(100))]>>
       ELSE <<>>

\* the body of the loop of lines 497-513; unique_users * total_quantity / 10
\* points is unique_users * total_quantity tenths
IpNetworkOf(ip_bucket) ==
    LET unique_users == ip_bucket.unique_users
        total_quantity == ip_bucket.total_quantity
    IN IF unique_users > 3 /\ total_quantity > 20
       THEN <<[type |-> "ip_based",
               identifier |-> ip_bucket.key,
               evidence |-> [unique_users |-> unique_users,
                             total_quantity |-> total_quantity,
                             user_agents |-> ip_bucket.user_agents],
               risk_score |-> Min(unique_users * total_quantity, Tenths(100))]>>
       ELSE <<>>

\* a slip: the score of a User-Agent network is not capped
UserAgentNetworkUncapped(ua_bucket) ==
    LET unique_ips == ua_bucket.unique_ips
        total_purchases == ua_bucket.total_purchases
    IN IF unique_ips > 5 /\ total_purchases > 15
       THEN <<[type |-> "user_agent_based",
               identifier |-> ua_bucket.key,
               evidence |-> [unique_ips |-> unique_ips,
                             total_purchases |-> total_purchases],
               risk_score |-> unique_ips * total_purchases * 2]>>
       ELSE <<>>

\* the body of the loop of lines 516-531; unique_ips * total_purchases / 5
\* points is unique_ips * total_purchases * 2 tenths
UserAgentNetworkOf(ua_bucket) ==
    LET unique_ips == ua_bucket.unique_ips
        total_purchases == ua_bucket.total_purchases
    IN IF unique_ips > 5 /\ total_purchases > 15
       THEN <<[type |-> "user_agent_based",
               identifier |-> ua_bucket.key,
               evidence |-> [unique_ips |-> unique_ips,
                             total_purchases |-> total_purchases],
               risk_score |-> Min(unique_ips * total_purchases * 2, Tenths(100))]>>
       ELSE <<>>

\* a slip: the buckets of the risk level are inclusive
ScalpingRiskLevelInclusive(max_risk) ==
    IF max_risk >= Tenths(75) THEN "CRITICAL"
    ELSE IF max_risk >= Tenths(50) THEN "HIGH"
    ELSE IF max_risk >= Tenths(25) THEN "MEDIUM"
    ELSE "LOW"

\* lines 535-541
ScalpingRiskLevel(max_risk) ==
    IF max_risk > Tenths(75) THEN "CRITICAL"
    ELSE IF max_risk > Tenths(50) THEN "HIGH"
    ELSE IF max_risk > Tenths(25) THEN "MEDIUM"
    ELSE "LOW"

_analyze_scalping_patterns(response, event_id) ==
    LET ip_buckets == response.aggregations.ip_analysis.buckets
        ua_buckets == response.aggregations.user_agent_analysis.buckets
        networks ==
            Concat([i \in 1..Len(ip_buckets) |-> IpNetworkOf(ip_buckets[i])])
            \o Concat([i \in 1..Len(ua_buckets) |-> UserAgentNetworkOf(ua_buckets[i])])
        max_risk ==
            IF networks = <<>> THEN 0
            ELSE SetMax({networks[i].risk_score : i \in 1..Len(networks)})
    IN [event_id |-> event_id,
        networks_detected |-> networks,
        risk_level |-> ScalpingRiskLevel(max_risk),
        total_networks |-> Len(networks),
        max_network_risk |-> max_risk]

\* lines 150-156: what the call returns when the search raises
ScalpingError == [networks_detected |-> <<>>, risk_level |-> "UNKNOWN"]

----------------------------------------------------------------------------
(* The threat dashboard *)

\* "now-1h" and the calendar interval "5m", in tenths of a second
Hour == 36000
FiveMinutes == 3000

\* {} : a dict without any key
EmptyDict == [key \in {} |-> 0]

\* The documents a search of the fraud_detection index sees for the range
\* query of line 167: those a refresh has made searchable (the writes ask for
\* no refresh, line 610) and that are stamped within the trailing hour.
RecentAssessments ==
    {i \in 1..Min(searchable, Len(fraud_index)) : fraud_index[i].timestamp >= now - Hour}

\* the terms aggregations; the buckets of a terms aggregation are kept as a
\* set, the claims do not speak of their order
RiskLevelBuckets(docs) ==
    {[key |-> level, doc_count |-> Cardinality({i \in docs : fraud_index[i].risk_level = level})] :
        level \in {fraud_index[i].risk_level : i \in docs}}

\* the indicator entries of the documents docs that carry the name
IndicatorEntries(docs, name) ==
    SeqSum([i \in 1..Len(fraud_index) |->
               IF i \in docs
               THEN Cardinality({j \in 1..Len(fraud_index[i].risk_indicators) :
                                    fraud_index[i].risk_indicators[j].indicator = name})
               ELSE 0])

IndicatorTypeBuckets(docs) ==
    {[key |-> name, doc_count |-> IndicatorEntries(docs, name)] :
        name \in UNION {{fraud_index[i].risk_indicators[j].indicator :
                            j \in 1..Len(fraud_index[i].risk_indicators)} : i \in docs}}

\* the cardinality aggregation on the field ip_address of the documents
BlockedIps(docs) ==
    Cardinality({fraud_index[i].ip_address :
                    i \in {j \in docs : "ip_address" \in DOMAIN fraud_index[j]}})

\* the date histogram: one bucket per 5 minutes from the first document to the
\* last, the empty ones between them included
TimelineBuckets(docs) ==
    IF docs = {} THEN <<>>
    ELSE LET slot(i) == fraud_index[i].timestamp \div FiveMinutes
             first == SetMin({slot(i) : i \in docs})
             last == SetMax({slot(i) : i \in docs})
         IN [k \in 1..(last - first + 1) |->
                LET inside == {i \in docs : slot(i) = first + k - 1}
                IN [key_as_string |-> (first + k - 1) * FiveMinutes,
                    doc_count |-> Cardinality(inside),
                    high_risk |-> [doc_count |->
                        Cardinality({i \in inside :
                            fraud_index[i].risk_level \in {"HIGH", "CRITICAL"}})]]]

\* the response to the query of lines 165-204
DashboardSearch ==
    LET docs == RecentAssessments
        flagged == {i \in docs : fraud_index[i].flagged}
    IN [aggregations |->
           [risk_levels |-> [buckets |-> RiskLevelBuckets(docs)],
            flagged_sessions |->
                [doc_count |-> Cardinality(flagged),
                 by_risk_type |->
                     [indicator_types |-> [buckets |-> IndicatorTypeBuckets(flagged)]]],
            blocked_ips |-> [value |-> BlockedIps(docs)],
            threat_timeline |-> [buckets |-> TimelineBuckets(docs)]]]

\* a slip: the aggregations are indexed, not read with .get; the KeyError is
\* caught by the caller
FormatThreatDashboardStrict(response) ==
    IF "aggregations" \notin DOMAIN response THEN EmptyDict
    ELSE LET aggs == response.aggregations
         IN [current_threat_level |-> "MEDIUM",
             active_threats |->
                 [total_flagged |-> aggs.flagged_sessions.doc_count,
                  by_type |-> {[type |-> bucket.key, count |-> bucket.doc_count] :
                                  bucket \in aggs.flagged_sessions.by_risk_type.indicator_types.buckets}],
             blocked_ips |-> aggs.blocked_ips.value,
             threat_timeline |->
                 [k \in 1..Len(aggs.threat_timeline.buckets) |->
                     [timestamp |-> aggs.threat_timeline.buckets[k].key_as_string,
                      total_events |-> aggs.threat_timeline.buckets[k].doc_count,
                      high_risk_events |-> aggs.threat_timeline.buckets[k].high_risk.doc_count]]]

_format_threat_dashboard(response) ==
    LET aggs == Get(response, "aggregations", EmptyDict)
        flagged_sessions == Get(aggs, "flagged_sessions", EmptyDict)
        indicator_types ==
            Get(Get(flagged_sessions, "by_risk_type", EmptyDict), "indicator_types", EmptyDict)
        timeline == Get(Get(aggs, "threat_timeline", EmptyDict), "buckets", <<>>)
    IN [current_threat_level |-> "MEDIUM",
        active_threats |->
            [total_flagged |-> Get(flagged_sessions, "doc_count", 0),
             by_type |-> {[type |-> bucket.key, count |-> bucket.doc_count] :
                             bucket \in Get(indicator_types, "buckets", {})}],
        blocked_ips |-> Get(Get(aggs, "blocked_ips", EmptyDict), "value", 0),
        threat_timeline |->
            [k \in 1..Len(timeline) |->
                [timestamp |-> timeline[k].key_as_string,
                 total_events |-> timeline[k].doc_count,
                 high_risk_events |-> timeline[k].high_risk.doc_count]]]

----------------------------------------------------------------------------
(* Operations *)

Idle == IsNone(assessment)

\* The body of assess_session_risk, lines 64-98.
Handle(session_id, user_id, read_ok, ip_ok, user_ok, write_ok) ==
    \E response \in SessionSearch(session_id) :
      LET sd == _get_session_data(response, read_ok)
      IN /\ session_data' = sd
         /\ IF IsNone(sd)
            THEN /\ assessment' = _create_low_risk_assessment(session_id, user_id)
                 /\ fraud_index' = fraud_index
            ELSE IF DetectorsRaise(sd)
            THEN /\ assessment' = Raise("ValueError")
                 /\ fraud_index' = fraud_index
            ELSE \E events \in EventSamples(TargetedEvents(sd.actions)) :
                   LET a == BuildAssessment(session_id, user_id,
                                RunDetectors(sd, user_id, ip_ok, user_ok, events))
                   IN /\ assessment' = ReturnAfterStore(a, write_ok)
                      /\ fraud_index' = _store_fraud_assessment(a, write_ok)

\* One call of assess_session_risk.  read_ok, ip_ok, user_ok and write_ok say
\* whether the four Elasticsearch calls of the handler succeed.
assess_session_risk(session_id, user_id, read_ok, ip_ok, user_ok, write_ok) ==
    /\ Idle
    /\ Len(fraud_index) < MaxStored
    /\ Handle(session_id, user_id, read_ok, ip_ok, user_ok, write_ok)
    /\ UNCHANGED <<user_behavior, ip_sessions, now, calls, scalping, reporting>>

\* One call of detect_scalping_networks: the aggregation search gives response,
\* or raises when search_ok is false.  The call is kept with what it read.
detect_scalping_networks(event_id, response, search_ok) ==
    /\ IsNone(scalping)
    /\ scalping' =
          IF search_ok
          THEN [response |-> response,
                result |-> _analyze_scalping_patterns(response, event_id)]
          ELSE [response |-> None, result |-> ScalpingError]
    /\ UNCHANGED <<user_behavior, ip_sessions, fraud_index, now, session_data,
                   assessment, calls, reporting>>

\* One call of assess_session_risk that is logged with what Elasticsearch did
\* during it, what _get_session_data gave it and what it returned.  It can
\* follow an earlier call, whose assessment the caller then holds in the log.
LoggedCall(session_id, user_id, read_ok, ip_ok, user_ok, write_ok) ==
    /\ Handle(session_id, user_id, read_ok, ip_ok, user_ok, write_ok)
    /\ calls' = Append(calls, [session_id |-> session_id,
                               user_id |-> user_id,
                               read_ok |-> read_ok,
                               ip_ok |-> ip_ok,
                               user_ok |-> user_ok,
                               write_ok |-> write_ok,
                               session_data |-> session_data',
                               assessment |-> assessment'])
    /\ UNCHANGED <<user_behavior, ip_sessions, now, scalping, reporting>>

\* One call of get_real_time_threat_dashboard.  The search raises, or gives
\* the aggregations, or gives a response without any.  The call is kept with
\* what its search did.
get_real_time_threat_dashboard(outcome) ==
    /\ IsNone(dashboard)
    /\ dashboard' =
          [search |-> outcome,
           result |->
               IF outcome = "raises" THEN EmptyDict
               ELSE IF outcome = "no aggregations"
                    THEN _format_threat_dashboard([hits |-> [hits |-> <<>>]])
                    ELSE _format_threat_dashboard(DashboardSearch)]
    /\ UNCHANGED <<user_behavior, ip_sessions, fraud_index, now, session_data, assessment,
                   calls, scalping, searchable, inflight>>

\* Elasticsearch refreshes the fraud_detection index: what was written becomes
\* searchable.
Refresh ==
    /\ IsNone(dashboard)
    /\ searchable < Len(fraud_index)
    /\ searchable' = Len(fraud_index)
    /\ UNCHANGED <<user_behavior, ip_sessions, fraud_index, now, session_data, assessment,
                   calls, scalping, dashboard, inflight>>

\* assess_session_risk step by step, for calls that run side by side on one
\* engine.  What a call holds between its steps are the locals of the method:
\* session_id and user_id, session_data (line 65), indicators (line 62) and
\* assessment (line 85).  The steps of a thread are the calls of Elasticsearch:
\* the session search, the IP count search amid the detectors, the write.
Thread(t) == inflight[t]

\* a slip: the indicator list is kept on the engine, so a call finds in it
\* what the calls before it have found
IndicatorsOnEngine(t, found) ==
    LET before == {u \in DOMAIN inflight : u # t /\ "indicators" \in DOMAIN inflight[u]}
        Gather[S \in SUBSET before] ==
            IF S = {} THEN <<>>
            ELSE LET u == SetMin(S) IN inflight[u].indicators \o Gather[S \ {u}]
    IN Gather[before] \o found

\* lines 62 and 70-78: the list the detectors extend belongs to the call
LocalIndicators(t, found) == found

CallBegins(t, session_id, user_id) ==
    /\ Thread(t).pc = "idle"
    /\ inflight' = [inflight EXCEPT ![t] =
                        [pc |-> "read", session_id |-> session_id, user_id |-> user_id]]
    /\ UNCHANGED <<user_behavior, ip_sessions, fraud_index, now, session_data, assessment,
                   calls, scalping, searchable, dashboard>>

\* lines 64-68
CallReadsSession(t, read_ok) ==
    /\ Thread(t).pc = "read"
    /\ \E response \in SessionSearch(Thread(t).session_id) :
          LET sd == _get_session_data(response, read_ok)
          IN inflight' = [inflight EXCEPT ![t] =
                 IF IsNone(sd)
                 THEN [pc |-> "done", session_data |-> sd, read_ok |-> read_ok] @@ Thread(t)
                      @@ [assessment |->
                             _create_low_risk_assessment(Thread(t).session_id, Thread(t).user_id)]
                 ELSE [pc |-> "detect", session_data |-> sd, read_ok |-> read_ok] @@ Thread(t)]
    /\ UNCHANGED <<user_behavior, ip_sessions, fraud_index, now, session_data, assessment,
                   calls, scalping, searchable, dashboard>>

\* lines 70-93
CallDetects(t, ip_ok) ==
    /\ Thread(t).pc = "detect"
    /\ LET sd == Thread(t).session_data
           found == RunDetectors(sd, Thread(t).user_id, ip_ok, TRUE, TargetedEvents(sd.actions))
           indicators == LocalIndicators(t, found)
       IN inflight' = [inflight EXCEPT ![t] =
              [pc |-> "store", ip_ok |-> ip_ok, indicators |-> indicators,
               assessment |->
                   BuildAssessment(Thread(t).session_id, Thread(t).user_id, indicators)]
              @@ Thread(t)]
    /\ UNCHANGED <<user_behavior, ip_sessions, fraud_index, now, session_data, assessment,
                   calls, scalping, searchable, dashboard>>

\* lines 95-98
CallStores(t, write_ok) ==
    /\ Thread(t).pc = "store"
    /\ fraud_index' = _store_fraud_assessment(Thread(t).assessment, write_ok)
    /\ inflight' = [inflight EXCEPT ![t] =
                        [pc |-> "done", write_ok |-> write_ok] @@ Thread(t)]
    /\ UNCHANGED <<user_behavior, ip_sessions, now, session_data, assessment,
                   calls, scalping, searchable, dashboard>>

\* The caller takes the returned assessment.
Return ==
    /\ ~Idle
    /\ assessment' = None
    /\ session_data' = None
    /\ UNCHANGED <<user_behavior, ip_sessions, fraud_index, now, calls, scalping, reporting>>

\* The documents indexed since the model's time origin; the history the index
\* held before it has negative timestamps.
Recorded == Cardinality({i \in 1..Len(user_behavior) : user_behavior[i].timestamp >= 0})

\* The tracker indexes one action document, stamped gap tenths of a second
\* after the previous one.
RecordAction(doc, gap, limit) ==
    /\ Idle
    /\ Recorded < limit
    /\ now' = now + gap
    /\ user_behavior' = Append(user_behavior, doc @@ [timestamp |-> now + gap])
    /\ UNCHANGED <<ip_sessions, fraud_index, session_data, assessment, calls, scalping,
                   reporting>>

----------------------------------------------------------------------------
(* Spec: short sessions of mixed actions, every store failure *)

SessionIds == {"session_123", "session_124"}
UserIds == {NoUser, "user_456"}
IpCounts == {3, 15}

ActionDoc(type) ==
    [session_id |-> "session_123", action_type |-> type, ip_address |-> "10.0.0.1"]

Docs ==
    {ActionDoc("view") @@ [event_id |-> 1],
     ActionDoc("add_to_cart") @@ [event_id |-> 1, quantity |-> 9],
     ActionDoc("add_to_cart") @@ [event_id |-> 2, quantity |-> 10],
     ActionDoc("add_to_cart") @@ [event_id |-> 2, quantity |-> 11],
     ActionDoc("add_to_cart") @@ [event_id |-> 2, quantity |-> 12]}

Init ==
    /\ user_behavior = <<>>
    /\ ip_sessions \in [{"10.0.0.1"} -> IpCounts]
    /\ fraud_index = <<>>
    /\ now = 0
    /\ session_data = None
    /\ assessment = None
    /\ calls = <<>>
    /\ scalping = None
    /\ searchable = 0
    /\ dashboard = None
    /\ inflight = <<>>

Record == \E doc \in Docs : RecordAction(doc, 100, MaxActions)

Assess ==
    \E session_id \in SessionIds, user_id \in UserIds,
       read_ok \in BOOLEAN, ip_ok \in BOOLEAN, user_ok \in BOOLEAN, write_ok \in BOOLEAN :
        assess_session_risk(session_id, user_id, read_ok, ip_ok, user_ok, write_ok)

Next == Record \/ Assess \/ Return

Spec == Init /\ [][Next]_vars

\* The specifications below build one session and assess it once: session_123,
\* no user id, the session read failing or not, the other store calls succeeding.
AssessSession ==
    \E read_ok \in BOOLEAN :
        assess_session_risk("session_123", NoUser, read_ok, TRUE, TRUE, TRUE)

InitQuiet ==
    /\ user_behavior = <<>>
    /\ ip_sessions = [ip \in {"10.0.0.1"} |-> 3]
    /\ fraud_index = <<>>
    /\ now = 0
    /\ session_data = None
    /\ assessment = None
    /\ calls = <<>>
    /\ scalping = None
    /\ searchable = 0
    /\ dashboard = None
    /\ inflight = <<>>

----------------------------------------------------------------------------
(* SpecTiming: sessions of up to MaxTimingActions page views whose spacing varies *)

MaxTimingActions == 7

\* 0.3 s, 1 s, 3 s and 10 s
TimingGaps == {3, 10, 30, 100}

RecordTimed == \E gap \in TimingGaps : RecordAction(ActionDoc("view"), gap, MaxTimingActions)

NextTiming == RecordTimed \/ AssessSession

SpecTiming == InitQuiet /\ [][NextTiming]_vars

----------------------------------------------------------------------------
(* SpecQuantity: sessions of cart and purchase actions whose quantities vary *)

MaxQuantityActions == 3

QuantityDocs ==
    {ActionDoc("add_to_cart") @@ [event_id |-> 1],
     ActionDoc("add_to_cart") @@ [event_id |-> 1, quantity |-> 9],
     ActionDoc("add_to_cart") @@ [event_id |-> 1, quantity |-> 10],
     ActionDoc("add_to_cart") @@ [event_id |-> 2, quantity |-> 11],
     ActionDoc("add_to_cart") @@ [event_id |-> 2, quantity |-> 26],
     ActionDoc("purchase") @@ [event_id |-> 2, quantity |-> 26]}

RecordQuantity == \E doc \in QuantityDocs : RecordAction(doc, 100, MaxQuantityActions)

NextQuantity == RecordQuantity \/ AssessSession

SpecQuantity == InitQuiet /\ [][NextQuantity]_vars

----------------------------------------------------------------------------
(* SpecEvents: a history of views of distinct events, then one more action or so *)

MaxEventActions == 1

\* the sizes of the histories the index can hold at the start
SeedSizes == {0, 5, 10, 15}

\* k views of the events 1..k, 10 s apart, the last one 10 s before time 0
SeedSession(k) ==
    [i \in 1..k |-> ActionDoc("view") @@ [event_id |-> i, timestamp |-> (i - k - 1) * 100]]

InitEvents ==
    /\ user_behavior \in {SeedSession(k) : k \in SeedSizes}
    /\ ip_sessions = [ip \in {"10.0.0.1"} |-> 3]
    /\ fraud_index = <<>>
    /\ now = 0
    /\ session_data = None
    /\ assessment = None
    /\ calls = <<>>
    /\ scalping = None
    /\ searchable = 0
    /\ dashboard = None
    /\ inflight = <<>>

\* a view or a purchase of an event not seen so far, a view of no event, a
\* cart action on event 1
EventDocs ==
    LET fresh == Len(user_behavior) + 1
    IN {ActionDoc("view") @@ [event_id |-> fresh],
        ActionDoc("purchase") @@ [event_id |-> fresh],
        ActionDoc("view"),
        ActionDoc("add_to_cart") @@ [event_id |-> 1]}

RecordEvent == \E doc \in EventDocs : RecordAction(doc, 100, MaxEventActions)

NextEvents == RecordEvent \/ AssessSession

SpecEvents == InitEvents /\ [][NextEvents]_vars

----------------------------------------------------------------------------
(* SpecBehaviors: a history of page views, then a few actions of other types *)

MaxBehaviorActions == 2

BehaviorSeedSizes == {8, 9, 10}

InitBehaviors ==
    /\ user_behavior \in {SeedSession(k) : k \in BehaviorSeedSizes}
    /\ ip_sessions = [ip \in {"10.0.0.1"} |-> 3]
    /\ fraud_index = <<>>
    /\ now = 0
    /\ session_data = None
    /\ assessment = None
    /\ calls = <<>>
    /\ scalping = None
    /\ searchable = 0
    /\ dashboard = None
    /\ inflight = <<>>

BehaviorDocs ==
    {ActionDoc(type) : type \in {"view", "scroll", "hover", "back_button", "page_refresh"}}

RecordBehavior == \E doc \in BehaviorDocs : RecordAction(doc, 100, MaxBehaviorActions)

NextBehaviors == RecordBehavior \/ AssessSession

SpecBehaviors == InitBehaviors /\ [][NextBehaviors]_vars

----------------------------------------------------------------------------
(* SpecIp: a session whose actions come from two IP addresses, or from none *)

MaxIpActions == 2

IpAddresses == {"10.0.0.1", "10.0.0.2"}

\* 3 and 11 sessions, and 30 where the score is capped
IpSessionCounts == {3, 11, 30}

InitIp ==
    /\ user_behavior = <<>>
    /\ ip_sessions \in [IpAddresses -> IpSessionCounts]
    /\ fraud_index = <<>>
    /\ now = 0
    /\ session_data = None
    /\ assessment = None
    /\ calls = <<>>
    /\ scalping = None
    /\ searchable = 0
    /\ dashboard = None
    /\ inflight = <<>>

IpDocs ==
    {[session_id |-> "session_123", action_type |-> "view"]}
    \cup {[session_id |-> "session_123", action_type |-> "view", ip_address |-> ip] :
              ip \in IpAddresses}

\* an action follows the previous one after 10 s, or in the same instant
RecordFromIp == \E doc \in IpDocs, gap \in {0, 100} : RecordAction(doc, gap, MaxIpActions)

NextIp == RecordFromIp \/ AssessSession

SpecIp == InitIp /\ [][NextIp]_vars

----------------------------------------------------------------------------
(* SpecScalping: one scalping analysis of an aggregation response *)

\* the buckets of a response, of both aggregations together
MaxBuckets == 2

IpKeys == <<"10.0.0.1", "10.0.0.2", "10.0.0.3">>
UaKeys == <<"Mozilla/5.0", "python-requests/2.28", "curl/8.0">>

\* the values of the unique_users and total_quantity aggregations
UserCounts == {3, 4, 5}
Quantities == {20, 25, 50, 150, 300}

\* the values of the unique_ips and total_purchases aggregations
UniqueIpCounts == {5, 6, 15}
Purchases == {15, 16, 50}

IpBucketLists(n) ==
    {[i \in 1..n |-> [key |-> IpKeys[i],
                      unique_users |-> f[i][1],
                      total_quantity |-> f[i][2],
                      user_agents |-> <<UaKeys[1]>>]] :
        f \in [1..n -> UserCounts \X Quantities]}

UaBucketLists(n) ==
    {[i \in 1..n |-> [key |-> UaKeys[i],
                      unique_ips |-> f[i][1],
                      total_purchases |-> f[i][2]]] :
        f \in [1..n -> UniqueIpCounts \X Purchases]}

\* the responses to the aggregation query of detect_scalping_networks
ScalpingResponses ==
    UNION {{[aggregations |-> [ip_analysis |-> [buckets |-> ip_buckets],
                               user_agent_analysis |-> [buckets |-> ua_buckets]]] :
               ip_buckets \in IpBucketLists(n[1]), ua_buckets \in UaBucketLists(n[2])} :
           n \in {m \in (0..MaxBuckets) \X (0..MaxBuckets) : m[1] + m[2] <= MaxBuckets}}

DetectScalping ==
    \E response \in ScalpingResponses, search_ok \in BOOLEAN :
        detect_scalping_networks(1, response, search_ok)

NextScalping == DetectScalping

SpecScalping == InitQuiet /\ [][NextScalping]_vars

----------------------------------------------------------------------------
(* SpecCalls: a short session, then two assessments of it, one after the other,
   with every combination of store failures *)

MaxCallActions == 2

InitCalls ==
    /\ user_behavior = <<>>
    /\ ip_sessions \in [{"10.0.0.1"} -> {10, 15}]
    /\ fraud_index = <<>>
    /\ now = 0
    /\ session_data = None
    /\ assessment = None
    /\ calls = <<>>
    /\ scalping = None
    /\ searchable = 0
    /\ dashboard = None
    /\ inflight = <<>>

CallDocs ==
    {ActionDoc("add_to_cart") @@ [event_id |-> 1, quantity |-> 11],
     ActionDoc("add_to_cart") @@ [event_id |-> 2, quantity |-> 12]}

RecordForCalls == \E doc \in CallDocs, gap \in {0, 100} : RecordAction(doc, gap, MaxCallActions)

\* without a user id the historical search is not made
UserCalls == {<<NoUser, TRUE>>, <<"user_456", TRUE>>, <<"user_456", FALSE>>}

FirstCall ==
    /\ calls = <<>>
    /\ \E user \in UserCalls, read_ok \in BOOLEAN, ip_ok \in BOOLEAN, write_ok \in BOOLEAN :
          LoggedCall("session_123", user[1], read_ok, ip_ok, user[2], write_ok)

SecondCall ==
    /\ Len(calls) = 1
    /\ \E user \in UserCalls, read_ok \in BOOLEAN, ip_ok \in BOOLEAN, write_ok \in BOOLEAN :
          LoggedCall("session_123", user[1], read_ok, ip_ok, user[2], write_ok)

NextCalls == RecordForCalls \/ FirstCall \/ SecondCall

SpecCalls == InitCalls /\ [][NextCalls]_vars

----------------------------------------------------------------------------
(* SpecMalformed: a session some of whose timestamps are not ISO-8601 texts *)

MaxMalformedActions == 3

MalformedDocs ==
    {ActionDoc("view"),
     ActionDoc("view") @@ [timestamp_format |-> "epoch_millis"],
     ActionDoc("add_to_cart") @@ [event_id |-> 1, quantity |-> 12],
     ActionDoc("add_to_cart") @@ [event_id |-> 1, quantity |-> 12,
                                  timestamp_format |-> "epoch_millis"]}

RecordMalformed == \E doc \in MalformedDocs : RecordAction(doc, 100, MaxMalformedActions)

NextMalformed == RecordMalformed \/ AssessSession

SpecMalformed == InitQuiet /\ [][NextMalformed]_vars

----------------------------------------------------------------------------
(* SpecDashboard: assessments of four sessions persisted over the last hour or
   so, a few more made now, then the dashboard *)

\* the documents of the fraud_detection index, old and new together
MaxAssessments == 2

SessionDoc(session_id, ip, quantity, timestamp) ==
    [session_id |-> session_id, action_type |-> "add_to_cart", ip_address |-> ip,
     event_id |-> 1, quantity |-> quantity, timestamp |-> timestamp]

\* session_123 is CRITICAL (26 tickets), session_124 is LOW (12 tickets),
\* session_125 is HIGH (10 and 11 tickets), session_126 has no action
DashboardBehavior ==
    <<SessionDoc("session_123", "10.0.0.1", 26, -400),
      SessionDoc("session_124", "10.0.0.1", 12, -300),
      SessionDoc("session_125", "10.0.0.2", 10, -200),
      SessionDoc("session_125", "10.0.0.2", 11, -100)>>

DashboardSessions == {"session_123", "session_124", "session_125", "session_126"}

\* what assess_session_risk persisted for a session age tenths of a second ago
PersistedBefore(session_id, age) ==
    LET sd == _get_session_data(CHOOSE r \in SessionSearch(session_id) : TRUE, TRUE)
        a == BuildAssessment(session_id, NoUser,
                 RunDetectors(sd, NoUser, TRUE, TRUE, TargetedEvents(sd.actions)))
    IN [FraudDoc(a) EXCEPT !.timestamp = now - age]

\* 65, 10 and 7 minutes
Ages == {39000, 6000, 4200}

\* the histories of n assessments, the oldest first
Histories(n) ==
    {[i \in 1..n |-> PersistedBefore(h[i][1], h[i][2])] :
        h \in {g \in [1..n -> {"session_123", "session_124", "session_125"} \X Ages] :
                  \A i \in 1..(n - 1) : g[i][2] >= g[i + 1][2]}}

InitDashboard ==
    /\ user_behavior = DashboardBehavior
    /\ ip_sessions = [ip \in IpAddresses |-> 3]
    /\ now = 2 * Hour
    /\ fraud_index \in UNION {Histories(n) : n \in 0..MaxAssessments}
    /\ searchable = Len(fraud_index)
    /\ session_data = None
    /\ assessment = None
    /\ calls = <<>>
    /\ scalping = None
    /\ dashboard = None
    /\ inflight = <<>>

AssessForDashboard ==
    /\ IsNone(dashboard)
    /\ Len(fraud_index) < MaxAssessments
    /\ \E session_id \in DashboardSessions, read_ok \in BOOLEAN :
          Handle(session_id, NoUser, read_ok, TRUE, TRUE, TRUE)
    /\ UNCHANGED <<user_behavior, ip_sessions, now, calls, scalping, reporting>>

ViewDashboard ==
    \E outcome \in {"aggregations", "no aggregations", "raises"} :
        get_real_time_threat_dashboard(outcome)

NextDashboard == AssessForDashboard \/ Refresh \/ ViewDashboard

SpecDashboard == InitDashboard /\ [][NextDashboard]_vars

----------------------------------------------------------------------------
(* SpecConcurrent: calls for the sessions of the dashboard specification that
   run side by side, with every combination of store failures *)

MaxThreads == 2

Threads == 1..MaxThreads

InitConcurrent ==
    /\ user_behavior = DashboardBehavior
    /\ ip_sessions \in [IpAddresses -> {3, 11}]
    /\ fraud_index = <<>>
    /\ now = 0
    /\ session_data = None
    /\ assessment = None
    /\ calls = <<>>
    /\ scalping = None
    /\ searchable = 0
    /\ dashboard = None
    /\ inflight = [t \in Threads |-> [pc |-> "idle"]]

Begin == \E t \in Threads, session_id \in DashboardSessions : CallBegins(t, session_id, NoUser)

ReadSession == \E t \in Threads, read_ok \in BOOLEAN : CallReadsSession(t, read_ok)

Detect == \E t \in Threads, ip_ok \in BOOLEAN : CallDetects(t, ip_ok)

Store == \E t \in Threads, write_ok \in BOOLEAN : CallStores(t, write_ok)

NextConcurrent == Begin \/ ReadSession \/ Detect \/ Store

SpecConcurrent == InitConcurrent /\ [][NextConcurrent]_vars

(* SpecLong: a session that already holds about a hundred actions, the oldest
   of them a cart action, then a few actions more *)

MaxLongActions == 2

\* the sizes of the histories the index can hold at the start
LongSizes == {98, 99, 100}

\* an add_to_cart of quantity tickets, then k - 1 times a scroll, a hover or a
\* view of the same event, 10 s apart, the last one 10 s before time 0
LongSession(k, quantity) ==
    [i \in 1..k |->
        (IF i = 1 THEN ActionDoc("add_to_cart") @@ [event_id |-> 1, quantity |-> quantity]
         ELSE IF i % 3 = 2 THEN ActionDoc("scroll")
         ELSE IF i % 3 = 0 THEN ActionDoc("hover")
         ELSE ActionDoc("view") @@ [event_id |-> 1])
        @@ [timestamp |-> (i - k - 1) * 100]]

InitLong ==
    /\ user_behavior \in {LongSession(k, quantity) : k \in LongSizes, quantity \in {12, 26}}
    /\ ip_sessions = [ip \in {"10.0.0.1"} |-> 3]
    /\ fraud_index = <<>>
    /\ now = 0
    /\ session_data = None
    /\ assessment = None
    /\ calls = <<>>
    /\ scalping = None
    /\ searchable = 0
    /\ dashboard = None
    /\ inflight = <<>>

LongDocs ==
    {ActionDoc("view") @@ [event_id |-> 1],
     ActionDoc("add_to_cart") @@ [event_id |-> 1, quantity |-> 9]}

RecordLong == \E doc \in LongDocs : RecordAction(doc, 100, MaxLongActions)

NextLong == RecordLong \/ AssessSession

SpecLong == InitLong /\ [][NextLong]_vars

(* SpecScores: histories and cart actions that bring every indicator about,
   at the low and at the high end of its score *)

MaxScoreActions == 2

\* no history, 6 events viewed, 15 events viewed
ScoreSeedSizes == {0, 6, 15}

InitScores ==
    /\ user_behavior \in {SeedSession(k) : k \in ScoreSeedSizes}
    /\ ip_sessions \in [{"10.0.0.1"} -> IpSessionCounts]
    /\ fraud_index = <<>>
    /\ now = 0
    /\ session_data = None
    /\ assessment = None
    /\ calls = <<>>
    /\ scalping = None
    /\ searchable = 0
    /\ dashboard = None
    /\ inflight = <<>>

ScoreDocs ==
    {ActionDoc("add_to_cart") @@ [event_id |-> 1, quantity |-> 11],
     ActionDoc("add_to_cart") @@ [event_id |-> 1, quantity |-> 60]}

RecordScored == \E doc \in ScoreDocs : RecordAction(doc, 100, MaxScoreActions)

NextScores == RecordScored \/ AssessSession

SpecScores == InitScores /\ [][NextScores]_vars

----------------------------------------------------------------------------
(* What the claims speak of *)

Returned == ~Idle

\* the detectors ran: the session read gave the call an action list
Assessed == Returned /\ ~IsNone(session_data)

\* the documents the index holds for a session
StoredActions(session_id) ==
    {i \in 1..Len(user_behavior) : user_behavior[i].session_id = session_id}

IndicatorsNamed(name) ==
    {i \in 1..Len(assessment.indicators) : assessment.indicators[i].indicator = name}

RECURSIVE ScoresUpTo(_, _)
ScoresUpTo(indicators, n) ==
    IF n = 0 THEN 0 ELSE ScoresUpTo(indicators, n - 1) + indicators[n].score

LevelOfScore(score) ==
    CASE score >= 90 -> "CRITICAL"
      [] score >= 75 /\ score < 90 -> "HIGH"
      [] score >= 50 /\ score < 75 -> "MEDIUM"
      [] score < 50 -> "LOW"

ActionOfLevel(level) ==
    CASE level = "CRITICAL" -> "BLOCK_IMMEDIATELY"
      [] level = "HIGH" -> "REQUIRE_VERIFICATION"
      [] level = "MEDIUM" -> "ADD_FRICTION"
      [] level = "LOW" -> "MONITOR"

----------------------------------------------------------------------------
(* C1 - C4: the floor assessment and the aggregation *)

\* C1: an assessment of a session for which the index holds no action is the
\* floor: risk level LOW, total score 0, no indicator, recommended action ALLOW.
C1_NoActionsFloor ==
    (Returned /\ StoredActions(assessment.session_id) = {}) =>
        /\ assessment.risk_level = "LOW"
        /\ assessment.total_risk_score = 0
        /\ assessment.indicators = <<>>
        /\ assessment.recommended_action = "ALLOW"

\* a session without actions is assessed while the index holds another session's
C1_Witness ==
    /\ Returned
    /\ user_behavior # <<>>
    /\ StoredActions(assessment.session_id) = {}
    /\ assessment.recommended_action = "ALLOW"

\* C2: the total risk score of a returned assessment is the sum of the scores
\* of all the indicators it lists, repeated names included, without a cap.
C2_TotalIsSum ==
    Returned =>
        assessment.total_risk_score
            = ScoresUpTo(assessment.indicators, Len(assessment.indicators))

\* two high_quantity_single indicators in one assessment, and a total above 100
C2_Witness ==
    /\ Returned
    /\ Cardinality(IndicatorsNamed("high_quantity_single")) >= 2
    /\ assessment.total_risk_score > 100

\* C3: the risk level is fixed by the total score: CRITICAL from 90, HIGH from
\* 75 to below 90, MEDIUM from 50 to below 75, LOW below 50.
C3_LevelOfScore ==
    Returned => assessment.risk_level = LevelOfScore(assessment.total_risk_score)

\* a total of exactly 50 is MEDIUM
C3_Witness ==
    /\ Returned
    /\ assessment.total_risk_score = 50
    /\ assessment.risk_level = "MEDIUM"

\* a total of exactly 90 is CRITICAL
C3_CriticalAt90 ==
    /\ Returned
    /\ assessment.total_risk_score = 90
    /\ assessment.risk_level = "CRITICAL"

\* C4: the recommended action of a session that has actions in the index is
\* the one of its risk level, and ALLOW goes to sessions without actions only.
C4_AllowOnlyWithoutActions ==
    Returned =>
        /\ StoredActions(assessment.session_id) # {} =>
               assessment.recommended_action = ActionOfLevel(assessment.risk_level)
        /\ assessment.recommended_action = "ALLOW" =>
               StoredActions(assessment.session_id) = {}

----------------------------------------------------------------------------
(* C5, C6, C10: the detectors that read the time between actions *)

RECURSIVE InsertTime(_, _)
InsertTime(t, times) ==
    IF times = <<>> THEN <<t>>
    ELSE IF t <= Head(times) THEN <<t>> \o times
    ELSE <<Head(times)>> \o InsertTime(t, Tail(times))

\* the timestamps of the actions, earliest first
RECURSIVE TimesInOrder(_)
TimesInOrder(actions) ==
    IF actions = <<>> THEN <<>>
    ELSE InsertTime(Head(actions).timestamp, TimesInOrder(Tail(actions)))

\* the gaps between chronologically consecutive actions
ChronologicalGaps(actions) ==
    LET times == TimesInOrder(actions)
    IN [i \in 1..(Len(times) - 1) |-> times[i + 1] - times[i]]

GapsBelow(gaps, limit) == Cardinality({i \in 1..Len(gaps) : gaps[i] < limit})

\* the actions are spaced 10 s apart
EvenlySpaced10s(actions) ==
    \A i \in 1..Len(ChronologicalGaps(actions)) : ChronologicalGaps(actions)[i] = 100

\* C5: rapid_fire_clicks is emitted, with score 30, exactly when more than 5 of
\* the gaps between chronologically consecutive actions are below 2.0 s; a
\* session of 7 actions spaced 10 s apart does not get it.
C5_RapidFireClicks ==
    Assessed =>
        LET gaps == ChronologicalGaps(session_data.actions)
        IN /\ IndicatorsNamed("rapid_fire_clicks") # {} <=> GapsBelow(gaps, 20) > 5
           /\ \A i \in IndicatorsNamed("rapid_fire_clicks") :
                 assessment.indicators[i].score = 30
           /\ Len(session_data.actions) < 2 =>
                 /\ IndicatorsNamed("rapid_fire_clicks") = {}
                 /\ IndicatorsNamed("superhuman_speed") = {}

\* C6: superhuman_speed is emitted, with score 50, exactly when more than 3 of
\* the gaps between consecutive actions are below 0.5 s, whatever
\* rapid_fire_clicks does; 6 gaps below 2.0 s with 4 of them below 0.5 s give
\* both indicators and a total of at least 80.
C6_SuperhumanSpeed ==
    Assessed =>
        LET gaps == ChronologicalGaps(session_data.actions)
        IN /\ IndicatorsNamed("superhuman_speed") # {} <=> GapsBelow(gaps, 5) > 3
           /\ \A i \in IndicatorsNamed("superhuman_speed") :
                 assessment.indicators[i].score = 50
           /\ (GapsBelow(gaps, 20) >= 6 /\ GapsBelow(gaps, 5) >= 4) =>
                 /\ IndicatorsNamed("rapid_fire_clicks") # {}
                 /\ IndicatorsNamed("superhuman_speed") # {}
                 /\ assessment.total_risk_score >= 80

RECURSIVE SumUpTo(_, _)
SumUpTo(gaps, n) == IF n = 0 THEN 0 ELSE SumUpTo(gaps, n - 1) + gaps[n]

\* more than 5 gaps, their population variance below 0.5 s^2 and their mean
\* below 5.0 s (gaps in tenths of a second)
ConsistentlyTimed(gaps) ==
    LET n == Len(gaps)
        sum == SumUpTo(gaps, n)
        squares == SumUpTo([i \in 1..n |-> gaps[i] * gaps[i]], n)
    IN /\ n > 5
       /\ 2 * (n * squares - sum * sum) < 100 * n * n
       /\ sum < 50 * n

\* C10: consistent_timing_pattern is emitted, with score 35, exactly when the
\* session has more than 5 gaps between chronologically consecutive actions,
\* their population variance is below 0.5 and their mean below 5.0 s; actions
\* evenly spaced 10 s apart do not get it.
C10_ConsistentTiming ==
    Assessed =>
        LET gaps == ChronologicalGaps(session_data.actions)
        IN /\ IndicatorsNamed("consistent_timing_pattern") # {} <=> ConsistentlyTimed(gaps)
           /\ \A i \in IndicatorsNamed("consistent_timing_pattern") :
                 assessment.indicators[i].score = 35
           /\ EvenlySpaced10s(session_data.actions) =>
                 IndicatorsNamed("consistent_timing_pattern") = {}

----------------------------------------------------------------------------
(* C7 - C9: the detectors that read quantities and event ids *)

HasQuantityAbove(action, n) ==
    /\ "action_type" \in DOMAIN action
    /\ action.action_type = "add_to_cart"
    /\ "quantity" \in DOMAIN action
    /\ action.quantity > n

\* the indices of the indicators named name, in list order
RECURSIVE PositionsNamed(_, _)
PositionsNamed(name, n) ==
    IF n = 0 THEN <<>>
    ELSE PositionsNamed(name, n - 1)
         \o (IF assessment.indicators[n].indicator = name THEN <<n>> ELSE <<>>)

\* the indices of the add_to_cart actions of more than 10 tickets, in list order
RECURSIVE PositionsAboveTen(_, _)
PositionsAboveTen(actions, n) ==
    IF n = 0 THEN <<>>
    ELSE PositionsAboveTen(actions, n - 1)
         \o (IF HasQuantityAbove(actions[n], 10) THEN <<n>> ELSE <<>>)

\* C7: there is one high_quantity_single indicator per add_to_cart action of
\* more than 10 tickets and no other; the indicator of an action of q tickets
\* has score 25 + min(2q, 50).
C7_HighQuantitySingle ==
    Assessed =>
        LET actions == session_data.actions
            singles == PositionsNamed("high_quantity_single", Len(assessment.indicators))
            above == PositionsAboveTen(actions, Len(actions))
        IN /\ Len(singles) = Len(above)
           /\ \A k \in 1..Len(singles) :
                 LET q == actions[above[k]].quantity
                     ind == assessment.indicators[singles[k]]
                 IN /\ ind.evidence.quantity = q
                    /\ ind.score = 25 + (IF 2 * q < 50 THEN 2 * q ELSE 50)

\* an add_to_cart of 11 tickets is scored 47, next to actions that get nothing
C7_Witness ==
    /\ Assessed
    /\ \E i \in IndicatorsNamed("high_quantity_single") :
          /\ assessment.indicators[i].evidence.quantity = 11
          /\ assessment.indicators[i].score = 47
    /\ \E j \in 1..Len(session_data.actions) :
          /\ session_data.actions[j].action_type = "add_to_cart"
          /\ HasQuantityAbove(session_data.actions[j], 9)
          /\ ~HasQuantityAbove(session_data.actions[j], 10)
    /\ \E j \in 1..Len(session_data.actions) :
          /\ session_data.actions[j].action_type # "add_to_cart"
          /\ session_data.actions[j].quantity > 10

\* the add_to_cart quantities of the first n actions, a missing one being 1
RECURSIVE CartQuantity(_, _)
CartQuantity(actions, n) ==
    IF n = 0 THEN 0
    ELSE CartQuantity(actions, n - 1)
         + (IF Get(actions[n], "action_type", "None") # "add_to_cart" THEN 0
            ELSE IF "quantity" \in DOMAIN actions[n] THEN actions[n].quantity
            ELSE 1)

\* C8: there is one high_quantity_cumulative indicator when the add_to_cart
\* quantities of the session sum to more than 20 and none otherwise; its score
\* is 20 + min(sum, 60).
C8_HighQuantityCumulative ==
    Assessed =>
        LET sum == CartQuantity(session_data.actions, Len(session_data.actions))
            cumulative == IndicatorsNamed("high_quantity_cumulative")
        IN /\ Cardinality(cumulative) = (IF sum > 20 THEN 1 ELSE 0)
           /\ \A i \in cumulative :
                 assessment.indicators[i].score = 20 + (IF sum < 60 THEN sum ELSE 60)

\* a sum of 21, one of the quantities missing, is scored 41
C8_Witness ==
    /\ Assessed
    /\ CartQuantity(session_data.actions, Len(session_data.actions)) = 21
    /\ \E j \in 1..Len(session_data.actions) : "quantity" \notin DOMAIN session_data.actions[j]
    /\ \E i \in IndicatorsNamed("high_quantity_cumulative") :
          assessment.indicators[i].score = 41

\* a sum of exactly 20 emits nothing
C8_NothingAt20 ==
    /\ Assessed
    /\ CartQuantity(session_data.actions, Len(session_data.actions)) = 20
    /\ IndicatorsNamed("high_quantity_cumulative") = {}

\* the event ids on the search, view and add_to_cart actions
EventsTargeted(actions) ==
    {e \in {Get(actions[i], "event_id", 0) : i \in 1..Len(actions)} :
        /\ e # 0
        /\ \E i \in 1..Len(actions) :
              /\ Get(actions[i], "event_id", 0) = e
              /\ actions[i].action_type \in {"search", "view", "add_to_cart"}}

\* C9: multiple_event_targeting is emitted exactly when more than 5 distinct
\* event ids occur on the search, view and add_to_cart actions; its score is
\* 15 + min(3 * count, 45) and its evidence lists at most 10 event ids.
C9_MultipleEventTargeting ==
    Assessed =>
        LET count == Cardinality(EventsTargeted(session_data.actions))
            multiple == IndicatorsNamed("multiple_event_targeting")
        IN /\ Cardinality(multiple) = (IF count > 5 THEN 1 ELSE 0)
           /\ \A i \in multiple :
                 /\ assessment.indicators[i].score
                        = 15 + (IF 3 * count < 45 THEN 3 * count ELSE 45)
                 /\ Cardinality(assessment.indicators[i].evidence.events) <= 10
                 /\ assessment.indicators[i].evidence.events
                        \subseteq EventsTargeted(session_data.actions)

\* 16 targeted events are scored 60 and 10 of them are listed
C9_Witness ==
    /\ Assessed
    /\ Cardinality(EventsTargeted(session_data.actions)) = 16
    /\ \E i \in IndicatorsNamed("multiple_event_targeting") :
          /\ assessment.indicators[i].score = 60
          /\ Cardinality(assessment.indicators[i].evidence.events) = 10

\* 5 targeted events and a sixth that was only purchased emit nothing
C9_PurchasedEventNotCounted ==
    /\ Assessed
    /\ Cardinality(EventsTargeted(session_data.actions)) = 5
    /\ \E i \in 1..Len(session_data.actions) :
          /\ session_data.actions[i].action_type = "purchase"
          /\ session_data.actions[i].event_id \notin EventsTargeted(session_data.actions)
    /\ IndicatorsNamed("multiple_event_targeting") = {}

----------------------------------------------------------------------------
(* C11: missing human behaviours *)

\* the action types the index holds for a session
StoredTypes(session_id) ==
    {user_behavior[i].action_type : i \in StoredActions(session_id)}

\* how many of scroll, hover, back_button and page_refresh the session never did
AbsentBehaviors(session_id) ==
    Cardinality({"scroll", "hover", "back_button", "page_refresh"} \ StoredTypes(session_id))

\* C11: an assessment carries a missing_human_behaviors indicator exactly when
\* at least 3 of scroll, hover, back_button and page_refresh are absent from
\* the action types of the session and the session has more than 10 actions;
\* it carries one at most, of score 25.
C11_MissingHumanBehaviors ==
    Assessed =>
        LET found == IndicatorsNamed("missing_human_behaviors")
            sid == assessment.session_id
        IN /\ (found # {}) <=>
                  (AbsentBehaviors(sid) >= 3 /\ Cardinality(StoredActions(sid)) > 10)
           /\ Cardinality(found) <= 1
           /\ \A i \in found : assessment.indicators[i].score = 25

\* a session of 11 actions that scrolled once is flagged
C11_Witness ==
    /\ Assessed
    /\ Cardinality(StoredActions(assessment.session_id)) = 11
    /\ AbsentBehaviors(assessment.session_id) = 3
    /\ IndicatorsNamed("missing_human_behaviors") # {}

\* a session of exactly 10 actions and no reference behaviour is not flagged
C11_NothingAtTen ==
    /\ Assessed
    /\ Cardinality(StoredActions(assessment.session_id)) = 10
    /\ AbsentBehaviors(assessment.session_id) = 4
    /\ IndicatorsNamed("missing_human_behaviors") = {}

\* a session of 11 actions with two reference behaviours is not flagged
C11_NothingWithTwoPresent ==
    /\ Assessed
    /\ Cardinality(StoredActions(assessment.session_id)) = 11
    /\ AbsentBehaviors(assessment.session_id) = 2
    /\ IndicatorsNamed("missing_human_behaviors") = {}

----------------------------------------------------------------------------
(* C12: IP anomalies *)

\* the first action recorded for a session
FirstRecorded(session_id) == user_behavior[SetMin(StoredActions(session_id))]

\* C12: the IP detector asks for the IP address of the first action recorded
\* for the session; the assessment carries a high_ip_activity indicator
\* exactly when that address has more than 10 distinct sessions in the trailing
\* hour, and the indicator scores 20 + min(2 * session count, 40).
C12_FirstActionIp ==
    Assessed =>
        LET first == FirstRecorded(assessment.session_id)
            found == IndicatorsNamed("high_ip_activity")
        IN /\ (found # {}) <=>
                  ("ip_address" \in DOMAIN first /\ ip_sessions[first.ip_address] > 10)
           /\ \A i \in found :
                  LET n == ip_sessions[first.ip_address]
                  IN /\ assessment.indicators[i].evidence.ip_address = first.ip_address
                     /\ assessment.indicators[i].score = 20 + (IF 2 * n < 40 THEN 2 * n ELSE 40)

----------------------------------------------------------------------------
(* C13 - C15: scalping networks *)

\* a scalping analysis has returned, and its aggregation search came back
ScalpingAnalyzed == ~IsNone(scalping) /\ ~IsNone(scalping.response)

\* the networks of a type that a result lists under an identifier
NetworksOf(type, identifier) ==
    {i \in 1..Len(scalping.result.networks_detected) :
        /\ scalping.result.networks_detected[i].type = type
        /\ scalping.result.networks_detected[i].identifier = identifier}

\* C13: the analysis lists exactly one ip_based network for an IP group whose
\* distinct users are more than 3 and whose summed quantity is more than 20,
\* and none for any other group; the risk score of the network is
\* min(users * quantity / 10, 100), so 4 users and quantity 25 give 10.0.
C13_IpBasedNetwork ==
    ScalpingAnalyzed =>
        \A b \in SeqRange(scalping.response.aggregations.ip_analysis.buckets) :
            LET found == NetworksOf("ip_based", b.key)
                networks == scalping.result.networks_detected
            IN /\ Cardinality(found) =
                      (IF b.unique_users > 3 /\ b.total_quantity > 20 THEN 1 ELSE 0)
               /\ b.unique_users = 3 => found = {}
               /\ \A i \in found :
                      /\ 10 * networks[i].risk_score =
                            (IF b.unique_users * b.total_quantity < 1000
                             THEN 10 * b.unique_users * b.total_quantity ELSE 10000)
                      /\ (b.unique_users = 4 /\ b.total_quantity = 25)
                            => networks[i].risk_score = 100

\* a group of 4 users and quantity 25 next to a group of 3 users: one network
\* of risk 10.0
C13_Witness ==
    /\ ScalpingAnalyzed
    /\ \E b \in SeqRange(scalping.response.aggregations.ip_analysis.buckets) :
          /\ b.unique_users = 4
          /\ b.total_quantity = 25
          /\ \E i \in NetworksOf("ip_based", b.key) :
                scalping.result.networks_detected[i].risk_score = 100
    /\ \E b \in SeqRange(scalping.response.aggregations.ip_analysis.buckets) :
          b.unique_users = 3 /\ b.total_quantity > 20

\* C14: the analysis lists exactly one user_agent_based network for a
\* User-Agent group whose distinct IPs are more than 5 and whose summed
\* purchases are more than 15, and none for any other group; its risk score
\* is min(ips * purchases / 5, 100); no network has a risk score above 100.
C14_UserAgentBasedNetwork ==
    ScalpingAnalyzed =>
        LET networks == scalping.result.networks_detected
        IN /\ \A b \in SeqRange(scalping.response.aggregations.user_agent_analysis.buckets) :
                 LET found == NetworksOf("user_agent_based", b.key)
                 IN /\ Cardinality(found) =
                           (IF b.unique_ips > 5 /\ b.total_purchases > 15 THEN 1 ELSE 0)
                    /\ \A i \in found :
                           5 * networks[i].risk_score =
                               (IF b.unique_ips * b.total_purchases < 500
                                THEN 10 * b.unique_ips * b.total_purchases ELSE 5000)
           /\ \A i \in 1..Len(networks) : networks[i].risk_score <= 1000

\* 15 IPs and 50 purchases: one network, capped at 100
C14_Witness ==
    /\ ScalpingAnalyzed
    /\ \E b \in SeqRange(scalping.response.aggregations.user_agent_analysis.buckets) :
          /\ b.unique_ips * b.total_purchases > 500
          /\ \E i \in NetworksOf("user_agent_based", b.key) :
                scalping.result.networks_detected[i].risk_score = 1000

\* the groups of a response that qualify as a network
QualifyingGroups(response) ==
    LET ip_buckets == response.aggregations.ip_analysis.buckets
        ua_buckets == response.aggregations.user_agent_analysis.buckets
    IN Cardinality({i \in 1..Len(ip_buckets) :
                       ip_buckets[i].unique_users > 3 /\ ip_buckets[i].total_quantity > 20})
       + Cardinality({i \in 1..Len(ua_buckets) :
                         ua_buckets[i].unique_ips > 5 /\ ua_buckets[i].total_purchases > 15})

\* the level of a maximum risk score, in tenths: above 75 CRITICAL, above 50
\* HIGH, above 25 MEDIUM, otherwise LOW
LevelOfNetworkRisk(max_risk) ==
    CASE max_risk > 750 -> "CRITICAL"
      [] max_risk > 500 /\ max_risk <= 750 -> "HIGH"
      [] max_risk > 250 /\ max_risk <= 500 -> "MEDIUM"
      [] max_risk <= 250 -> "LOW"

\* a result with the count, the maximum and the level of its network list
WellFormedResult(result) ==
    /\ {"networks_detected", "total_networks", "max_network_risk", "risk_level"}
          \subseteq DOMAIN result
    /\ LET networks == result.networks_detected
       IN /\ result.total_networks = Len(networks)
          /\ \A i \in 1..Len(networks) : networks[i].risk_score <= result.max_network_risk
          /\ networks # <<>> =>
                \E i \in 1..Len(networks) : networks[i].risk_score = result.max_network_risk
          /\ networks = <<>> => (result.max_network_risk = 0 /\ result.risk_level = "LOW")
          /\ result.risk_level = LevelOfNetworkRisk(result.max_network_risk)

\* C15 as stated: the result of every detect_scalping_networks run carries the
\* full network list, total_networks equal to its length, max_network_risk
\* equal to the largest risk score and a risk level bucketed from that maximum
\* with strict comparisons; an empty network list comes with LOW and 0.
C15_EveryRun ==
    ~IsNone(scalping) =>
        /\ WellFormedResult(scalping.result)
        /\ ScalpingAnalyzed =>
              Len(scalping.result.networks_detected) = QualifyingGroups(scalping.response)

\* C15, amended: the above holds of every run whose aggregation search came
\* back; a run whose search raised returns an empty network list with the
\* risk level UNKNOWN and neither a count nor a maximum.
C15_AnalyzedRun ==
    /\ ScalpingAnalyzed =>
          /\ WellFormedResult(scalping.result)
          /\ Len(scalping.result.networks_detected) = QualifyingGroups(scalping.response)
    /\ (~IsNone(scalping) /\ IsNone(scalping.response)) =>
          scalping.result = [networks_detected |-> <<>>, risk_level |-> "UNKNOWN"]

\* two networks, the larger of risk exactly 75: the level is HIGH
C15_Witness ==
    /\ ScalpingAnalyzed
    /\ scalping.result.total_networks = 2
    /\ scalping.result.max_network_risk = 750
    /\ scalping.result.risk_level = "HIGH"

\* a maximum of exactly 25 is LOW
C15_LowAt25 ==
    /\ ScalpingAnalyzed
    /\ scalping.result.max_network_risk = 250
    /\ scalping.result.risk_level = "LOW"

\* no group qualifies: LOW and 0
C15_NoNetwork ==
    /\ ScalpingAnalyzed
    /\ scalping.response.aggregations.ip_analysis.buckets # <<>>
    /\ scalping.result.networks_detected = <<>>
    /\ scalping.result.max_network_risk = 0
    /\ scalping.result.risk_level = "LOW"

----------------------------------------------------------------------------
(* C16, C17, C19, C20: repeated calls and store failures *)

\* what an assessment says of the session
Verdict(a) ==
    [total_risk_score |-> a.total_risk_score,
     risk_level |-> a.risk_level,
     indicators |-> a.indicators]

\* two logged calls were made for the same session and user
SameCaller(c, d) == c.session_id = d.session_id /\ c.user_id = d.user_id

\* Elasticsearch answered the reads of two calls alike: the session search
\* failed in both or gave both the same hits in the same order, and the IP
\* count search failed in both or in neither
ReadsAgree(c, d) == c.session_data = d.session_data /\ c.ip_ok = d.ip_ok

C16_OrderOfHitsMatters ==
    /\ Len(calls) = 2
    /\ SameCaller(calls[1], calls[2])
    /\ calls[1].read_ok /\ calls[2].read_ok
    /\ calls[1].ip_ok = calls[2].ip_ok
    /\ Verdict(calls[1].assessment) # Verdict(calls[2].assessment)

\* the logged calls
Calls == SeqRange(calls)

\* what a call for a session without any action returns, the timestamp aside
EmptySessionVerdict ==
    [total_risk_score |-> 0, risk_level |-> "LOW", indicators |-> <<>>,
     recommended_action |-> "ALLOW"]

\* C17: a call whose session read fails does not raise; it returns a LOW
\* assessment with the recommended action MONITOR, which can be told from the
\* assessment of a session that has no actions.
C17_DegradedOnReadFailure ==
    \A c \in Calls :
        ~c.read_ok =>
            /\ ~IsRaised(c.assessment)
            /\ c.assessment.risk_level = "LOW"
            /\ c.assessment.recommended_action = "MONITOR"
            /\ [f \in DOMAIN EmptySessionVerdict |-> c.assessment[f]] # EmptySessionVerdict

\* C19: a call whose assessment write fails returns what the same call returns
\* when the write succeeds, and does not raise; nothing is persisted for it.
C19_WriteFailureNotSeen ==
    /\ \A c \in Calls : ~c.write_ok => ~IsRaised(c.assessment)
    /\ \A c, d \in Calls :
          (SameCaller(c, d) /\ ReadsAgree(c, d) /\ ~c.write_ok /\ d.write_ok) =>
              c.assessment = d.assessment
    /\ Len(fraud_index) =
          Cardinality({i \in 1..Len(calls) :
                          calls[i].write_ok /\ ~IsNone(calls[i].session_data)})

\* the write of the first call fails, the write of the second succeeds: the
\* same assessment of three indicators is returned twice and persisted once
C19_Witness ==
    /\ Len(calls) = 2
    /\ SameCaller(calls[1], calls[2])
    /\ ReadsAgree(calls[1], calls[2])
    /\ ~calls[1].write_ok
    /\ calls[2].write_ok
    /\ Len(calls[1].assessment.indicators) = 3
    /\ calls[1].assessment = calls[2].assessment
    /\ Len(fraud_index) = 1

\* the indicators of a list that are not high_ip_activity
WithoutIpActivity(indicators) ==
    SelectSeq(indicators, LAMBDA x : x.indicator # "high_ip_activity")

\* C20: a call on a session with actions whose IP count search fails still
\* returns an assessment; it has no high_ip_activity indicator, its other
\* indicators are those of the same call with the search succeeding, and its
\* total is the sum of their scores.
C20_IpFailureContributesNothing ==
    \A c \in Calls :
        (~c.ip_ok /\ ~IsNone(c.session_data)) =>
            /\ ~IsRaised(c.assessment)
            /\ WithoutIpActivity(c.assessment.indicators) = c.assessment.indicators
            /\ c.assessment.total_risk_score =
                  ScoresUpTo(c.assessment.indicators, Len(c.assessment.indicators))
            /\ \A d \in Calls :
                  (SameCaller(c, d) /\ c.session_data = d.session_data /\ d.ip_ok) =>
                      c.assessment.indicators = WithoutIpActivity(d.assessment.indicators)

\* the first call reports high_ip_activity among four indicators, the
\* second, whose count search fails, reports the other three
C20_Witness ==
    /\ Len(calls) = 2
    /\ SameCaller(calls[1], calls[2])
    /\ calls[1].session_data = calls[2].session_data
    /\ calls[1].ip_ok
    /\ ~calls[2].ip_ok
    /\ Len(calls[1].assessment.indicators) = 4
    /\ Len(calls[2].assessment.indicators) = 3
    /\ calls[1].assessment.total_risk_score = calls[2].assessment.total_risk_score + 50

----------------------------------------------------------------------------
(* C18: timestamps that do not parse *)

\* the actions of a session whose timestamp parses / does not parse
WellTimed(session_id) ==
    {i \in StoredActions(session_id) : "timestamp_format" \notin DOMAIN user_behavior[i]}

IllTimed(session_id) == StoredActions(session_id) \ WellTimed(session_id)

\* C18: a call on a session with an action whose timestamp does not parse
\* returns an assessment all the same.  The action is left out of the gaps of
\* the rapid-fire and bot detectors, which therefore report nothing unless
\* enough well-timed actions remain (7 for rapid_fire_clicks and
\* consistent_timing_pattern, 5 for superhuman_speed); the quantity detector
\* still counts it, with one high_quantity_single indicator for every
\* add_to_cart action of more than 10 tickets.
C18_UnparsableTimestampTolerated ==
    (Returned /\ ~IsNone(session_data) /\ IllTimed("session_123") # {}) =>
        /\ ~IsRaised(assessment)
        /\ Cardinality(WellTimed("session_123")) < 7 =>
              /\ IndicatorsNamed("rapid_fire_clicks") = {}
              /\ IndicatorsNamed("consistent_timing_pattern") = {}
        /\ Cardinality(WellTimed("session_123")) < 5 =>
              IndicatorsNamed("superhuman_speed") = {}
        /\ Cardinality(IndicatorsNamed("high_quantity_single")) =
              Cardinality({i \in StoredActions("session_123") :
                              /\ user_behavior[i].action_type = "add_to_cart"
                              /\ Get(user_behavior[i], "quantity", 1) > 10})

\* the call raised
C18_Raised == Returned /\ IsRaised(assessment)

\* a session whose only action is ill-timed is assessed: no timestamp is parsed
C18_SingleActionAssessed ==
    /\ Assessed
    /\ ~IsRaised(assessment)
    /\ IllTimed("session_123") # {}
    /\ IndicatorsNamed("high_quantity_single") # {}

----------------------------------------------------------------------------
(* C21 - C23: the threat dashboard *)

\* the dashboard was asked for
Viewed == ~IsNone(dashboard)

\* the assessments persisted in the trailing hour, searchable or not
PersistedThisHour == {i \in 1..Len(fraud_index) : fraud_index[i].timestamp >= now - 36000}

\* flagged total 0, distinct-IP count 0, no breakdown, no histogram
ZeroedDashboard(result) ==
    /\ {"active_threats", "blocked_ips", "threat_timeline"} \subseteq DOMAIN result
    /\ result.active_threats.total_flagged = 0
    /\ result.active_threats.by_type = {}
    /\ result.blocked_ips = 0
    /\ result.threat_timeline = <<>>

\* the call changes neither index
DashboardReadsOnly ==
    (IsNone(dashboard) /\ ~IsNone(dashboard')) =>
        UNCHANGED <<user_behavior, ip_sessions, fraud_index, searchable>>

\* C21 as stated: a dashboard call returns zeroed counts, an empty breakdown
\* and an empty histogram whenever no assessment was persisted in the trailing
\* hour, and on any other empty result.
C21_ZeroedOnEmptyWindow ==
    (Viewed /\ (PersistedThisHour = {} \/ dashboard.search = "no aggregations")) =>
        ZeroedDashboard(dashboard.result)

\* C21, amended: a dashboard call changes neither index; when its search
\* raises it returns the empty dict; when its search answers and no
\* assessment was persisted in the trailing hour, or the answer carries no
\* aggregations, it returns zeroed counts, an empty breakdown and an empty
\* histogram.
C21_ZeroedWhenSearchAnswers ==
    /\ [](Viewed =>
            IF dashboard.search = "raises"
            THEN dashboard.result = [key \in {} |-> 0]
            ELSE (PersistedThisHour = {} \/ dashboard.search = "no aggregations") =>
                     ZeroedDashboard(dashboard.result))
    /\ [][DashboardReadsOnly]_vars

\* the only assessment of the index is 65 minutes old: the dashboard is zeroed
C21_Witness ==
    /\ Viewed
    /\ dashboard.search = "aggregations"
    /\ fraud_index # <<>>
    /\ PersistedThisHour = {}
    /\ ZeroedDashboard(dashboard.result)

\* a response without aggregations gives the zeroed dashboard too
C21_NoAggregations ==
    /\ Viewed
    /\ dashboard.search = "no aggregations"
    /\ PersistedThisHour # {}
    /\ ZeroedDashboard(dashboard.result)

\* the assessments of the trailing hour that a search sees
SeenThisHour == {i \in PersistedThisHour : i <= searchable}

HighRisk(docs) == {i \in docs : fraud_index[i].risk_level \in {"HIGH", "CRITICAL"}}

\* the flagged count and the histogram of a dashboard are those of the
\* assessments docs
CountsOf(result, docs) ==
    /\ "active_threats" \in DOMAIN result
    /\ result.active_threats.total_flagged = Cardinality(HighRisk(docs))
    /\ \A k \in 1..Len(result.threat_timeline) :
          LET bucket == result.threat_timeline[k]
              inside == {i \in docs : /\ fraud_index[i].timestamp >= bucket.timestamp
                                      /\ fraud_index[i].timestamp < bucket.timestamp + 3000}
          IN /\ bucket.total_events = Cardinality(inside)
             /\ bucket.high_risk_events = Cardinality(HighRisk(inside))
             /\ bucket.high_risk_events <= bucket.total_events
    /\ \A i \in docs :
          \E k \in 1..Len(result.threat_timeline) :
              /\ fraud_index[i].timestamp >= result.threat_timeline[k].timestamp
              /\ fraud_index[i].timestamp < result.threat_timeline[k].timestamp + 3000

\* an assessment is stored as flagged exactly when its score is at least 75
FlaggedFrom75 ==
    \A i \in 1..Len(fraud_index) : fraud_index[i].flagged <=> fraud_index[i].risk_score >= 75

\* C22 as stated: the flagged count of a dashboard is the number of HIGH and
\* CRITICAL assessments persisted in the trailing hour, an assessment being
\* flagged exactly from a score of 75; the high-risk count of every 5-minute
\* bucket is the number of HIGH and CRITICAL assessments of the bucket, and at
\* most the total of the bucket.
C22_FlaggedCountOfPersisted ==
    Viewed => (FlaggedFrom75 /\ CountsOf(dashboard.result, PersistedThisHour))

\* C22, amended: the above holds of a dashboard whose search gave the
\* aggregations, for the assessments of the trailing hour that a refresh has
\* made searchable.
C22_FlaggedCountOfSeen ==
    /\ FlaggedFrom75
    /\ (Viewed /\ dashboard.search = "aggregations") =>
          CountsOf(dashboard.result, SeenThisHour)

\* a HIGH and a LOW assessment in one bucket: 1 flagged, 1 of 2 high-risk
C22_Witness ==
    /\ Viewed
    /\ dashboard.search = "aggregations"
    /\ dashboard.result.active_threats.total_flagged = 1
    /\ \E i \in SeenThisHour : fraud_index[i].risk_level = "HIGH"
    /\ \E k \in 1..Len(dashboard.result.threat_timeline) :
          /\ dashboard.result.threat_timeline[k].total_events = 2
          /\ dashboard.result.threat_timeline[k].high_risk_events = 1

\* a CRITICAL assessment was written and not refreshed: the dashboard misses it
C22_NotYetSearchable ==
    /\ Viewed
    /\ dashboard.search = "aggregations"
    /\ HighRisk(PersistedThisHour) # {}
    /\ dashboard.result.active_threats.total_flagged = 0

\* the IP addresses the user_behavior index holds for a session
RecordedIps(session_id) ==
    {user_behavior[i].ip_address :
        i \in {j \in StoredActions(session_id) : "ip_address" \in DOMAIN user_behavior[j]}}

\* the IP addresses of the flagged sessions among the assessments docs
FlaggedIps(docs) == UNION {RecordedIps(fraud_index[i].session_id) : i \in HighRisk(docs)}

\* C23: a dashboard reports the counts of the recent assessments by risk
\* level, and its distinct-IP figure is the number of distinct IP addresses of
\* the flagged sessions among them: at least 1 when a flagged session with a
\* recorded IP address is among them.
C23_LevelCountsAndFlaggedIps ==
    (Viewed /\ dashboard.search = "aggregations") =>
        /\ "risk_levels" \in DOMAIN dashboard.result
        /\ dashboard.result.blocked_ips = Cardinality(FlaggedIps(SeenThisHour))
        /\ FlaggedIps(SeenThisHour) # {} => dashboard.result.blocked_ips >= 1

\* two flagged sessions from two addresses are on the dashboard, which counts
\* no address
C23_NoIpCounted ==
    /\ Viewed
    /\ dashboard.search = "aggregations"
    /\ dashboard.result.active_threats.total_flagged = 2
    /\ Cardinality(FlaggedIps(SeenThisHour)) = 2
    /\ dashboard.result.blocked_ips = 0

----------------------------------------------------------------------------
(* C24: calls side by side *)

\* the threads whose call has its assessment
Assessing == {t \in DOMAIN inflight : "assessment" \in DOMAIN inflight[t]}

\* what the call of a thread returns when it runs alone and Elasticsearch
\* answers it as it answered the thread
AloneAssessment(t) ==
    LET call == inflight[t]
    IN IF IsNone(call.session_data)
       THEN _create_low_risk_assessment(call.session_id, call.user_id)
       ELSE BuildAssessment(call.session_id, call.user_id,
                RunDetectors(call.session_data, call.user_id, call.ip_ok, TRUE,
                             TargetedEvents(call.session_data.actions)))

\* the threads whose call has written its assessment
Persisting ==
    {t \in Assessing : inflight[t].pc = "done" /\ "write_ok" \in DOMAIN inflight[t]
                            /\ inflight[t].write_ok}

\* C24: whatever the interleaving of the searches and writes of two calls, each
\* call has the total score, risk level and indicators it has when run alone
\* on the same user_behavior index, and the fraud_detection index holds one
\* document per call that wrote, with the score, level and indicators of that
\* call alone.
C24_CallsShareNothing ==
    /\ \A t \in Assessing :
          /\ inflight[t].session_data \in
                {_get_session_data(r, inflight[t].read_ok) :
                    r \in SessionSearch(inflight[t].session_id)}
          /\ Verdict(inflight[t].assessment) = Verdict(AloneAssessment(t))
    /\ Len(fraud_index) = Cardinality(Persisting)
    /\ \A i \in 1..Len(fraud_index) :
          \E t \in Persisting :
              /\ fraud_index[i].session_id = inflight[t].session_id
              /\ fraud_index[i].risk_score = AloneAssessment(t).total_risk_score
              /\ fraud_index[i].risk_level = AloneAssessment(t).risk_level
              /\ fraud_index[i].risk_indicators = AloneAssessment(t).indicators

\* the call of thread 2 for session_125 went through while the call of thread
\* 1 for session_123 was between its detectors and its write
C24_Witness ==
    /\ DOMAIN inflight = {1, 2}
    /\ inflight[1].pc = "store"
    /\ inflight[2].pc = "done"
    /\ inflight[1].session_id = "session_123"
    /\ inflight[2].session_id = "session_125"
    /\ inflight[1].assessment.risk_level = "CRITICAL"
    /\ inflight[2].assessment.risk_level = "HIGH"
    /\ Len(fraud_index) = 1
    /\ fraud_index[1].session_id = "session_125"

----------------------------------------------------------------------------
(* C25: the action list the detectors receive *)

\* the add_to_cart quantities of all the actions the index holds for a session
StoredQuantity(session_id) ==
    TotalQuantity(SelectSeq(user_behavior, LAMBDA d : d.session_id = session_id))

\* C25: the detectors of an assessment receive every action the session has
\* recorded, however many: the action list is as long as the session's stored
\* history, and the cumulative add_to_cart quantity is the one of all the stored
\* actions, so high_quantity_cumulative is emitted exactly when the stored
\* quantity is above 20.
C25_DetectorsSeeEveryAction ==
    Assessed =>
        /\ Len(session_data.actions) = Cardinality(StoredActions("session_123"))
        /\ TotalQuantity(session_data.actions) = StoredQuantity("session_123")
        /\ (StoredQuantity("session_123") > 20
               <=> IndicatorsNamed("high_quantity_cumulative") # {})

\* a session of 101 actions whose oldest action put 26 tickets in the cart is
\* assessed on its newest 100 actions and gets no indicator for the quantity
C25_OldestActionsDropped ==
    /\ Assessed
    /\ Cardinality(StoredActions("session_123")) = 101
    /\ Len(session_data.actions) = 100
    /\ StoredQuantity("session_123") = 26
    /\ IndicatorsNamed("high_quantity_cumulative") = {}
    /\ IndicatorsNamed("high_quantity_single") = {}

----------------------------------------------------------------------------
(* C26: what is persisted *)

\* the call went through: the detectors ran and none of them raised
Completed == Assessed /\ ~IsRaised(assessment)

\* C26: a call that completes persists one document, written after all the
\* detectors ran: it carries the score, the level, the action and every
\* indicator of the returned assessment, one high_quantity_single per
\* add_to_cart of more than 10 tickets among them; a call that does not
\* complete (no session data, or a detector raised) persists nothing.
C26_PersistedAsReturned ==
    Returned =>
        IF Completed
        THEN /\ Len(fraud_index) = 1
             /\ fraud_index[1].session_id = assessment.session_id
             /\ fraud_index[1].risk_score = assessment.total_risk_score
             /\ fraud_index[1].risk_level = assessment.risk_level
             /\ fraud_index[1].risk_indicators = assessment.indicators
             /\ fraud_index[1].recommended_action = assessment.recommended_action
             /\ fraud_index[1].risk_score
                   = ScoresUpTo(fraud_index[1].risk_indicators,
                                Len(fraud_index[1].risk_indicators))
             /\ Cardinality({i \in 1..Len(fraud_index[1].risk_indicators) :
                      fraud_index[1].risk_indicators[i].indicator = "high_quantity_single"})
                   = Len(PositionsAboveTen(session_data.actions, Len(session_data.actions)))
        ELSE fraud_index = <<>>

\* three cart actions of 12 tickets: four indicators returned, four persisted
C26_Witness ==
    /\ Completed
    /\ Len(assessment.indicators) = 4
    /\ Len(fraud_index) = 1
    /\ Len(fraud_index[1].risk_indicators) = 4

\* a detector raised on a timestamp and nothing was written
C26_NothingWrittenOnRaise ==
    /\ Returned
    /\ IsRaised(assessment)
    /\ fraud_index = <<>>
----------------------------------------------------------------------------
(* C27: the user id *)

\* C27: the user id makes no difference to the verdict.  Two calls for the
\* same session whose reads of the session and of the IP count were answered
\* alike return the same total score, risk level, indicators and recommended
\* action, whether a user id was given or not and whether the search of the
\* user's history succeeded or failed; each carries the user id it was given.
C27_UserIdMakesNoDifference ==
    /\ \A k \in 1..Len(calls) : calls[k].assessment.user_id = calls[k].user_id
    /\ (Len(calls) = 2 /\ ReadsAgree(calls[1], calls[2])) =>
           /\ Verdict(calls[1].assessment) = Verdict(calls[2].assessment)
           /\ calls[1].assessment.recommended_action
                 = calls[2].assessment.recommended_action

\* a call without a user id and a call with one whose history search failed,
\* both reporting the same three indicators
C27_Witness ==
    /\ Len(calls) = 2
    /\ calls[1].user_id = NoUser
    /\ calls[2].user_id = "user_456"
    /\ ~calls[2].user_ok
    /\ ReadsAgree(calls[1], calls[2])
    /\ ~IsNone(calls[1].session_data)
    /\ Len(calls[1].assessment.indicators) = 3
    /\ calls[1].assessment.indicators = calls[2].assessment.indicators
----------------------------------------------------------------------------
(* C28: one cart action of 21 tickets or more *)

\* the session's stored history holds an add_to_cart of 21 tickets or more
HoldsLargeCart(session_id) ==
    \E i \in StoredActions(session_id) : HasQuantityAbove(user_behavior[i], 20)

\* C28: a session with well-formed timestamps that holds an add_to_cart of 21
\* tickets or more, and whose actions the call could read, is assessed CRITICAL
\* with BLOCK_IMMEDIATELY, on a total of 108 or more.
C28_LargeCartIsCritical ==
    (Assessed /\ HoldsLargeCart("session_123")) =>
        /\ assessment.total_risk_score >= 108
        /\ assessment.risk_level = "CRITICAL"
        /\ assessment.recommended_action = "BLOCK_IMMEDIATELY"

\* the cart action of 26 tickets is the oldest of 101 actions: no indicator
\* speaks of a quantity and the session is assessed HIGH, not CRITICAL
C28_LargeCartNotBlocked ==
    /\ Assessed
    /\ HoldsLargeCart("session_123")
    /\ Cardinality(StoredActions("session_123")) = 101
    /\ IndicatorsNamed("high_quantity_single") = {}
    /\ assessment.total_risk_score = 80
    /\ assessment.risk_level = "HIGH"
    /\ assessment.recommended_action = "REQUIRE_VERIFICATION"

\* up to a hundred actions the cart action of 26 tickets makes the session CRITICAL
C28_LargeCartBlocked ==
    /\ Assessed
    /\ HoldsLargeCart("session_123")
    /\ Cardinality(StoredActions("session_123")) = 100
    /\ assessment.total_risk_score >= 108
    /\ assessment.recommended_action = "BLOCK_IMMEDIATELY"
----------------------------------------------------------------------------
(* C29: the range of every score *)

IndicatorNames ==
    {"rapid_fire_clicks", "superhuman_speed", "consistent_timing_pattern",
     "missing_human_behaviors", "high_quantity_single", "high_quantity_cumulative",
     "multiple_event_targeting", "high_ip_activity"}

\* the scores an indicator of a name can have
ScoreRange(name) ==
    CASE name = "rapid_fire_clicks" -> 30..30
      [] name = "superhuman_speed" -> 50..50
      [] name = "consistent_timing_pattern" -> 35..35
      [] name = "missing_human_behaviors" -> 25..25
      [] name = "high_quantity_single" -> 47..75
      [] name = "high_quantity_cumulative" -> 41..80
      [] name = "multiple_event_targeting" -> 33..60
      [] name = "high_ip_activity" -> 42..60

\* C29: every indicator of an assessment has one of the eight names and a score
\* in the range of its name, so between 25 and 80; an assessment with fewer
\* than two indicators is not CRITICAL.
C29_ScoresInRange ==
    Assessed =>
        /\ \A i \in 1..Len(assessment.indicators) :
              LET ind == assessment.indicators[i]
              IN /\ ind.indicator \in IndicatorNames
                 /\ ind.score \in ScoreRange(ind.indicator)
                 /\ ind.score >= 25
                 /\ ind.score <= 80
        /\ (Len(assessment.indicators) < 2 => assessment.risk_level # "CRITICAL")

\* one cart action of 60 tickets: two indicators at the top of their ranges,
\* 75 and 80, make the assessment CRITICAL
C29_Witness ==
    /\ Assessed
    /\ Len(assessment.indicators) = 2
    /\ assessment.indicators[1].indicator = "high_quantity_single"
    /\ assessment.indicators[1].score = 75
    /\ assessment.indicators[2].indicator = "high_quantity_cumulative"
    /\ assessment.indicators[2].score = 80
    /\ assessment.risk_level = "CRITICAL"

\* every name is seen, and a lone indicator of the highest score is seen too
C29_EveryNameSeen ==
    /\ Assessed
    /\ {"rapid_fire_clicks", "superhuman_speed", "consistent_timing_pattern",
         "missing_human_behaviors", "multiple_event_targeting", "high_ip_activity"}
          \subseteq {assessment.indicators[i].indicator : i \in 1..Len(assessment.indicators)}
    /\ \E i \in 1..Len(assessment.indicators) :
          /\ assessment.indicators[i].indicator = "multiple_event_targeting"
          /\ assessment.indicators[i].score = 60
    /\ \E i \in 1..Len(assessment.indicators) :
          /\ assessment.indicators[i].indicator = "high_ip_activity"
          /\ assessment.indicators[i].score = 60
----------------------------------------------------------------------------
(* C30: one write per call, none for the floor *)

\* a step that is one call of assess_session_risk
CallStep == UNCHANGED reporting

\* the call wrote exactly the assessment it returns, once
WroteOnce ==
    /\ Len(fraud_index') = Len(fraud_index) + 1
    /\ SubSeq(fraud_index', 1, Len(fraud_index)) = fraud_index
    /\ LET doc == fraud_index'[Len(fraud_index')]
       IN /\ doc.session_id = assessment'.session_id
          /\ doc.risk_score = assessment'.total_risk_score
          /\ doc.risk_indicators = assessment'.indicators
          /\ doc.recommended_action = assessment'.recommended_action

\* C30: a call whose session read returned actions writes once to the
\* fraud_detection index, a call whose session read returned no action or
\* failed does not write; no document of the index is the floor assessment
\* (recommended_action ALLOW), and what a dashboard counts are documents of the
\* index.
C30_OneWritePerCall ==
    /\ [][CallStep => IF IsNone(session_data') THEN fraud_index' = fraud_index
                                                ELSE WroteOnce]_vars
    /\ [](\A i \in 1..Len(fraud_index) : fraud_index[i].recommended_action # "ALLOW")
    /\ []((Viewed /\ dashboard.search = "aggregations") =>
             CountsOf(dashboard.result, SeenThisHour))

\* session_126 has no action: the call returned the floor, the index stayed
\* empty and the dashboard that followed is zeroed
C30_Witness ==
    /\ Returned
    /\ IsNone(session_data)
    /\ assessment.session_id = "session_126"
    /\ assessment.recommended_action = "ALLOW"
    /\ fraud_index = <<>>
    /\ Viewed
    /\ dashboard.search = "aggregations"
    /\ ZeroedDashboard(dashboard.result)

\* two calls that read actions left two documents
C30_TwoCallsTwoDocuments ==
    /\ Assessed
    /\ Len(fraud_index) = 2
    /\ fraud_index[1].session_id = "session_124"
    /\ fraud_index[1].timestamp = now
    /\ fraud_index[2].session_id = "session_123"
    /\ fraud_index[2].timestamp = now
====
